---- MODULE Spec2Model ----
(***************************************************************************)
(* Fantasy golf pool: the scoring and ranking core of the backend.         *)
(*                                                                         *)
(* Python values are modelled as follows.                                  *)
(*   - A position is a tagged value: None, an int, or a str given as the   *)
(*     sequence of its characters, so that lower(), replace("T", ""),      *)
(*     strip() and int() are computed character by character.              *)
(*   - Points are Python floats holding small whole numbers; they are      *)
(*     integers here (sums of them are exact in both).                     *)
(*   - A table of the database without a unique constraint is a bag of     *)
(*     rows (the surrogate id column is left out).                         *)
(***************************************************************************)
EXTENDS Bags, FiniteSets, Integers, Sequences, TLC

VARIABLES
    pp_args,        \* arguments of the last calculate_position_points call
    pp_result,      \* what that call returned (or that it raised)
    entries,        \* Entry rows: entry id -> mutable columns
    daily_scores,   \* DailyScore table (bag of rows)
    bonus_points,   \* BonusPoint table (bag of rows)
    last_call,      \* the operation that produced the current state
    calls,          \* number of operations run so far
    race,           \* two tasks calculating the same round: who has finished
    score_snapshots,    \* ScoreSnapshot rows, oldest first
    ranking_snapshots,  \* RankingSnapshot rows, in the order they were added
    batch,          \* the running call of the score calculator service
    current_round,  \* Tournament.current_round
    detect_args,    \* arguments of the detect_scorecard_changes call
    detect_result,  \* what that call returned
    bonus_args,     \* arguments of the calculate_bonus_points call
    bonus_result,   \* what that call returned
    driver,         \* the polling loop of one BackgroundJobService
    jobs            \* the job registry, the job services and the requests

batchVars == <<score_snapshots, ranking_snapshots, batch, current_round>>
detectVars == <<detect_args, detect_result>>
bonusVars == <<bonus_args, bonus_result>>
\* the variables of the specifications of single components
restVars == <<bonusVars, driver, jobs>>
vars == <<pp_args, pp_result, entries, daily_scores, bonus_points, last_call, calls,
          race, score_snapshots, ranking_snapshots, batch, current_round,
          detect_args, detect_result, bonus_args, bonus_result, driver, jobs>>

-----------------------------------------------------------------------------
(* Bounds of the model *)

\* longest position string drawn as an input of calculate_position_points
MaxPosLen == 3

\* most rows of one rebuy CSV file
MaxCsvRows == 1

\* most operations (calculations, imports, bonus requests) in one behaviour
MaxCalls == 3

-----------------------------------------------------------------------------
(* Python values *)

NoneVal == [kind |-> "none", chars |-> <<>>, val |-> 0]
Str(cs) == [kind |-> "str", chars |-> cs, val |-> 0]
IntVal(n) == [kind |-> "int", chars |-> <<>>, val |-> n]

\* bool(x) of None, a str or an int
Truthy(x) ==
    CASE x.kind = "none" -> FALSE
      [] x.kind = "str" -> x.chars # <<>>
      [] OTHER -> x.val # 0

\* str.lower(), one character
LowerChar(c) ==
    CASE c = "C" -> "c"
      [] c = "U" -> "u"
      [] c = "T" -> "t"
      [] c = "W" -> "w"
      [] c = "D" -> "d"
      [] c = "Q" -> "q"
      [] c = "X" -> "x"
      [] OTHER -> c

\* str.lower()
Lower(cs) == [i \in 1..Len(cs) |-> LowerChar(cs[i])]

\* str.replace(ch, "")
RemoveAll(cs, ch) == SelectSeq(cs, LAMBDA c : c # ch)

IsSpace(c) == c = " "

RECURSIVE LStrip(_)
LStrip(cs) ==
    IF cs # <<>> /\ IsSpace(Head(cs)) THEN LStrip(Tail(cs)) ELSE cs

RECURSIVE RStrip(_)
RStrip(cs) ==
    IF cs # <<>> /\ IsSpace(cs[Len(cs)])
    THEN RStrip(SubSeq(cs, 1, Len(cs) - 1))
    ELSE cs

\* str.strip()
Strip(cs) == RStrip(LStrip(cs))

DigitChars == {"0", "1", "2", "3", "4", "5", "6", "7", "8", "9"}

DigitValue(c) ==
    CASE c = "0" -> 0 [] c = "1" -> 1 [] c = "2" -> 2 [] c = "3" -> 3
      [] c = "4" -> 4 [] c = "5" -> 5 [] c = "6" -> 6 [] c = "7" -> 7
      [] c = "8" -> 8 [] OTHER -> 9

RECURSIVE DigitsValue(_)
DigitsValue(cs) ==
    IF cs = <<>> THEN 0
    ELSE 10 * DigitsValue(SubSeq(cs, 1, Len(cs) - 1)) + DigitValue(cs[Len(cs)])

IsDigits(cs) == cs # <<>> /\ \A i \in 1..Len(cs) : cs[i] \in DigitChars

\* int(s) of a str: surrounding whitespace, an optional sign, decimal digits.
\* ok = FALSE stands for ValueError.  (The digit separator "_" is not in the
\* alphabet of the inputs.)
PyInt(cs) ==
    LET s == Strip(cs)
        signed == s # <<>> /\ Head(s) \in {"+", "-"}
        body == IF signed THEN Tail(s) ELSE s
    IN  IF ~IsDigits(body) THEN [ok |-> FALSE, val |-> 0]
        ELSE [ok |-> TRUE,
              val |-> IF signed /\ Head(s) = "-"
                      THEN 0 - DigitsValue(body) ELSE DigitsValue(body)]

-----------------------------------------------------------------------------
(* Position Scoring Table *)

RoundIds == 1..4

SCORING_RULES ==
    [r \in RoundIds |->
        CASE r = 1 -> [leader |-> 8, top_5 |-> 5, top_10 |-> 3, top_25 |-> 1]
          [] r = 4 -> [winner |-> 15, leader |-> 12, top_5 |-> 8, top_10 |-> 5,
                       top_25 |-> 3, made_cut |-> 1]
          [] OTHER -> [leader |-> 12, top_5 |-> 8, top_10 |-> 5,
                       top_25 |-> 3, made_cut |-> 1]]

\* self.SCORING_RULES.get(round_id, {})
RulesOf(round_id) ==
    IF round_id \in DOMAIN SCORING_RULES THEN SCORING_RULES[round_id] ELSE <<>>

\* rules.get(key, default)
RulesGet(rules, key, default) ==
    IF key \in DOMAIN rules THEN rules[key] ELSE default

CutWords == {<<"c", "u", "t">>, <<"w", "d">>, <<"d", "q">>}
CutStatuses == {"cut", "wd", "dq"}

\* status.lower() on the status values of the leaderboard feed
StatusLower(status) ==
    CASE status = "CUT" -> "cut"
      [] status = "WD" -> "wd"
      [] status = "DQ" -> "dq"
      [] OTHER -> status

Returned(points) == [raised |-> FALSE, points |-> points]
Raised == [raised |-> TRUE, points |-> 0]

\* mutant: the top-5 band stops one position early
PositionRangePoints_OffByOne(pos, round_id, is_winner, status) ==
    LET rules == RulesOf(round_id) IN
    IF round_id = 4 /\ is_winner /\ pos = 1
    THEN Returned(RulesGet(rules, "winner", 15))
    ELSE IF pos = 1 THEN Returned(RulesGet(rules, "leader", 0))
    ELSE IF pos < 5 THEN Returned(RulesGet(rules, "top_5", 0))
    ELSE IF pos <= 10 THEN Returned(RulesGet(rules, "top_10", 0))
    ELSE IF pos <= 25 THEN Returned(RulesGet(rules, "top_25", 0))
    ELSE IF round_id >= 2 /\ RulesGet(rules, "made_cut", 0) # 0
    THEN Returned(RulesGet(rules, "made_cut", 0))
    ELSE Returned(0)

\* the tier ladder of calculate_position_points, once pos is an int
PositionRangePoints(pos, round_id, is_winner, status) ==
    LET rules == RulesOf(round_id) IN
    IF round_id = 4 /\ is_winner /\ pos = 1
    THEN Returned(RulesGet(rules, "winner", 15))
    ELSE IF pos = 1 THEN Returned(RulesGet(rules, "leader", 0))
    ELSE IF pos <= 5 THEN Returned(RulesGet(rules, "top_5", 0))
    ELSE IF pos <= 10 THEN Returned(RulesGet(rules, "top_10", 0))
    ELSE IF pos <= 25 THEN Returned(RulesGet(rules, "top_25", 0))
    ELSE IF round_id >= 2 /\ RulesGet(rules, "made_cut", 0) # 0
    THEN IF status # "None" /\ status # "" /\ StatusLower(status) \in CutStatuses
         THEN Returned(0)
         ELSE Returned(RulesGet(rules, "made_cut", 0))
    ELSE Returned(0)

\* mutant: the ValueError of int() is not caught
ParsePosition_Uncaught(position) ==
    LET parsed == PyInt(Strip(RemoveAll(position.chars, "T"))) IN
    IF parsed.ok THEN [ok |-> TRUE, raised |-> FALSE, pos |-> parsed.val]
    ELSE [ok |-> FALSE, raised |-> TRUE, pos |-> 0]

\* the try/except around int(): ValueError is caught and scores 0
ParsePosition(position) ==
    LET parsed == PyInt(Strip(RemoveAll(position.chars, "T"))) IN
    IF parsed.ok THEN [ok |-> TRUE, raised |-> FALSE, pos |-> parsed.val]
    ELSE [ok |-> FALSE, raised |-> FALSE, pos |-> 0]

calculate_position_points(position, round_id, is_winner, status) ==
    IF ~Truthy(position) THEN Returned(0)
    ELSE IF position.kind = "int"
    THEN PositionRangePoints(position.val, round_id, is_winner, status)
    ELSE IF Lower(position.chars) \in CutWords THEN Returned(0)
    ELSE LET p == ParsePosition(position) IN
         IF p.raised THEN Raised
         ELSE IF ~p.ok THEN Returned(0)
         ELSE PositionRangePoints(p.pos, round_id, is_winner, status)

-----------------------------------------------------------------------------
(* Inputs of calculate_position_points *)

PosAlphabet == {"T", "0", "1", "2", "5", "6", " ", "-", "x"}

RECURSIVE StringsUpTo(_, _)
StringsUpTo(alphabet, n) ==
    IF n = 0 THEN {<<>>}
    ELSE LET shorter == StringsUpTo(alphabet, n - 1) IN
         shorter \cup {Append(s, c) : s \in shorter, c \in alphabet}

PositionWords ==
    {<<"c", "u", "t">>, <<"C", "U", "T">>, <<"C", "u", "t">>, <<"w", "d">>,
     <<"W", "D">>, <<"d", "q">>, <<"D", "Q">>, <<"M", "C">>}

PositionInputs ==
    {NoneVal} \cup {IntVal(n) : n \in {0, 1, 4, 7, 25, 26}}
        \cup {Str(cs) : cs \in StringsUpTo(PosAlphabet, MaxPosLen) \cup PositionWords}

\* "None" is Python's None for the optional status argument
StatusInputs == {"None", "", "complete", "active", "cut", "wd", "dq", "CUT"}

PointsArgs ==
    [position : PositionInputs, round_id : RoundIds,
     is_winner : BOOLEAN, status : StatusInputs]

NoArgs == [position |-> NoneVal, round_id |-> 0, is_winner |-> FALSE, status |-> "None"]
NotCalled == [raised |-> FALSE, points |-> 0 - 1]

-----------------------------------------------------------------------------
(* Leaderboard and scorecard snapshots (external, read-only) *)

NumSlots == 6

SlotIds == 1..NumSlots

\* one leaderboard row; score is currentRoundScore as its characters
Row(player, pos, status, score) ==
    [playerId |-> player, position |-> pos, status |-> status,
     currentRoundScore |-> score]

RowsOf(lb, player_id) == {i \in 1..Len(lb) : lb[i].playerId = player_id}

FirstIndex(S) == CHOOSE i \in S : \A j \in S : i <= j

get_player_position(lb, player_id) ==
    IF RowsOf(lb, player_id) = {} THEN NoneVal
    ELSE lb[FirstIndex(RowsOf(lb, player_id))].position

get_player_status(lb, player_id) ==
    IF RowsOf(lb, player_id) = {} THEN "unknown"
    ELSE lb[FirstIndex(RowsOf(lb, player_id))].status

-----------------------------------------------------------------------------
(* Rebuy Resolver *)

\* zip(rebuy_original_player_ids, rebuy_player_ids)
RebuyPairs(entry) ==
    LET n == IF Len(entry.rebuy_original_player_ids) < Len(entry.rebuy_player_ids)
             THEN Len(entry.rebuy_original_player_ids)
             ELSE Len(entry.rebuy_player_ids)
    IN  [i \in 1..n |-> <<entry.rebuy_original_player_ids[i], entry.rebuy_player_ids[i]>>]

\* rebuy_map.get(pid, pid): a later pair for the same original overwrites
RebuyMapGet(pairs, pid) ==
    LET hits == {i \in 1..Len(pairs) : pairs[i][1] = pid} IN
    IF hits = {} THEN pid
    ELSE pairs[CHOOSE i \in hits : \A j \in hits : j <= i][2]

HasRebuys(entry) ==
    entry.rebuy_player_ids # <<>> /\ entry.rebuy_original_player_ids # <<>>

\* the player list with the substitution applied in every round
BasePlayerIds_AllRounds(entry, round_id) ==
    IF HasRebuys(entry)
    THEN [i \in SlotIds |-> RebuyMapGet(RebuyPairs(entry), entry.player_ids[i])]
    ELSE entry.player_ids

\* the player list of calculate_daily_base_points
BasePlayerIds(entry, round_id) ==
    IF round_id >= 3 /\ HasRebuys(entry)
    THEN [i \in SlotIds |-> RebuyMapGet(RebuyPairs(entry), entry.player_ids[i])]
    ELSE entry.player_ids

\* the player list of calculate_bonus_points
BonusPlayerIds(entry, round_id) ==
    IF round_id >= 3 /\ HasRebuys(entry)
    THEN [i \in SlotIds |-> RebuyMapGet(RebuyPairs(entry), entry.player_ids[i])]
    ELSE entry.player_ids

-----------------------------------------------------------------------------
(* Daily base points *)

RECURSIVE SumSeq(_)
\* sum(xs)
SumSeq(xs) == IF xs = <<>> THEN 0 ELSE Head(xs) + SumSeq(Tail(xs))

\* sum(x["points"] for x in xs)
SumPoints(xs) == SumSeq([i \in 1..Len(xs) |-> xs[i].points])

\* mutant: the winner is the first row at position "1", finished or not
WinnerId_AnyStatus(lb, round_id) ==
    LET hits == {i \in 1..Len(lb) : lb[i].position = Str(<<"1">>)}
    IN  IF round_id = 4 /\ hits # {} THEN lb[FirstIndex(hits)].playerId ELSE "None"

\* the first row with position "1" and status "complete" (final round only)
WinnerId(lb, round_id) ==
    LET hits == {i \in 1..Len(lb) :
                    lb[i].position = Str(<<"1">>) /\ lb[i].status = "complete"}
    IN  IF round_id = 4 /\ hits # {} THEN lb[FirstIndex(hits)].playerId ELSE "None"

SlotPoints(lb, round_id, player_id) ==
    calculate_position_points(
        get_player_position(lb, player_id), round_id,
        round_id = 4 /\ player_id = WinnerId(lb, round_id),
        get_player_status(lb, player_id)).points

\* mutant: the total leaves the sixth slot out
calculate_daily_base_points_FirstFive(entry, lb, round_id) ==
    LET player_ids == BasePlayerIds(entry, round_id)
        breakdown ==
            [i \in SlotIds |->
                [player_id |-> player_ids[i],
                 position |-> get_player_position(lb, player_ids[i]),
                 status |-> get_player_status(lb, player_ids[i]),
                 points |-> SlotPoints(lb, round_id, player_ids[i])]]
    IN  [total_points |-> SumPoints(SubSeq(breakdown, 1, 5)),
         breakdown |-> breakdown]

calculate_daily_base_points(entry, lb, round_id) ==
    LET player_ids == BasePlayerIds(entry, round_id)
        breakdown ==
            [i \in SlotIds |->
                [player_id |-> player_ids[i],
                 position |-> get_player_position(lb, player_ids[i]),
                 status |-> get_player_status(lb, player_ids[i]),
                 points |-> SlotPoints(lb, round_id, player_ids[i])]]
    IN  [total_points |-> SumPoints(breakdown),
         breakdown |-> breakdown]

-----------------------------------------------------------------------------
(* Bonus Detector *)

ManualTypes == {"gir_leader", "fairways_leader"}

\* a bonus dict; hole = 0 stands for a dict without "hole", player_id "None"
\* for the team bonus
Bonus(player_id, bonus_type, points, hole) ==
    [player_id |-> player_id, bonus_type |-> bonus_type, points |-> points,
     hole |-> hole]

\* a BonusPoint row
BonusRow(entry_id, round_id, b) ==
    [entry_id |-> entry_id, round_id |-> round_id, bonus_type |-> b.bonus_type,
     points |-> b.points, player_id |-> b.player_id, hole |-> b.hole]

BagFilter(B, P(_)) == [x \in {y \in DOMAIN B : P(y)} |-> B[x]]

RECURSIVE SeqToBag(_)
SeqToBag(xs) ==
    IF xs = <<>> THEN EmptyBag ELSE SetToBag({Head(xs)}) (+) SeqToBag(Tail(xs))

RECURSIVE BagToSeq(_)
\* the rows of a query result, in a fixed order
BagToSeq(B) ==
    IF DOMAIN B = {} THEN <<>>
    ELSE LET x == CHOOSE y \in DOMAIN B : TRUE IN
         <<x>> \o BagToSeq(B (-) SetToBag({x}))

\* the persisted manual bonuses of (entry, round)
ManualRows(rows, entry_id, round_id) ==
    BagFilter(rows, LAMBDA b : /\ b.entry_id = entry_id
                               /\ b.round_id = round_id
                               /\ b.bonus_type \in ManualTypes)

InSeq(x, xs) == \E i \in 1..Len(xs) : xs[i] = x

ManualBonuses(rows, entry_id, round_id, player_ids) ==
    LET found == BagToSeq(ManualRows(rows, entry_id, round_id))
        mine == SelectSeq(found, LAMBDA b : InSeq(b.player_id, player_ids))
    IN  [i \in 1..Len(mine) |->
            Bonus(mine[i].player_id, mine[i].bonus_type, mine[i].points, 0)]

\* currentRoundScore parsed as in the low-score scan; ok = FALSE is the
\* "continue" of an unreadable score
ParseLowScore(score) ==
    IF score # <<>> /\ Head(score) = "-"
    THEN LET n == PyInt(Tail(score)) IN [ok |-> n.ok, val |-> 0 - n.val]
    ELSE IF score # <<>> /\ Head(score) = "+"
    THEN PyInt(Tail(score))
    ELSE IF score = <<"E">> THEN [ok |-> TRUE, val |-> 0]
    ELSE [ok |-> FALSE, val |-> 0]

RECURSIVE LowScoreScan_LastWins(_, _, _)
\* mutant: a row that equals the lowest score so far replaces the holder
LowScoreScan_LastWins(lb, i, best) ==
    IF i > Len(lb) THEN best
    ELSE LET row == lb[i]
             s == ParseLowScore(row.currentRoundScore)
         IN  IF row.status = "complete" /\ s.ok /\ (~best.found \/ s.val <= best.value)
             THEN LowScoreScan_LastWins(lb, i + 1,
                               [found |-> TRUE, value |-> s.val, player |-> row.playerId])
             ELSE LowScoreScan_LastWins(lb, i + 1, best)

RECURSIVE LowScoreScan(_, _, _)
\* the scan over the rows: a strictly lower score replaces the holder
LowScoreScan(lb, i, best) ==
    IF i > Len(lb) THEN best
    ELSE LET row == lb[i]
             s == ParseLowScore(row.currentRoundScore)
         IN  IF row.status = "complete" /\ s.ok /\ (~best.found \/ s.val < best.value)
             THEN LowScoreScan(lb, i + 1,
                               [found |-> TRUE, value |-> s.val, player |-> row.playerId])
             ELSE LowScoreScan(lb, i + 1, best)

LowScorePlayer(lb) ==
    LowScoreScan(lb, 1, [found |-> FALSE, value |-> 0, player |-> "None"]).player

\* mutant: the eagle test comes before the hole-in-one test
HoleBonus_EagleFirst(player_id, hole_num, hole) ==
    IF hole.holeScore # 0 /\ hole.par # 0
    THEN IF hole.holeScore - hole.par = 0 - 2
         THEN <<Bonus(player_id, "eagle", 2, hole_num)>>
         ELSE IF hole.holeScore = 1 /\ hole.par = 3
         THEN <<Bonus(player_id, "hole_in_one", 3, hole_num)>>
         ELSE IF hole.holeScore - hole.par = 0 - 3
         THEN <<Bonus(player_id, "double_eagle", 3, hole_num)>>
         ELSE <<>>
    ELSE <<>>

\* the bonus of one hole of a scorecard, as a sequence of 0 or 1 bonus
HoleBonus(player_id, hole_num, hole) ==
    IF hole.holeScore # 0 /\ hole.par # 0
    THEN IF hole.holeScore = 1 /\ hole.par = 3
         THEN <<Bonus(player_id, "hole_in_one", 3, hole_num)>>
         ELSE IF hole.holeScore - hole.par = 0 - 3
         THEN <<Bonus(player_id, "double_eagle", 3, hole_num)>>
         ELSE IF hole.holeScore - hole.par = 0 - 2
         THEN <<Bonus(player_id, "eagle", 2, hole_num)>>
         ELSE <<>>
    ELSE <<>>

RECURSIVE HolesBonuses(_, _, _)
\* the loop over holes.items(), in the order of the hole numbers
HolesBonuses(player_id, holes, todo) ==
    IF todo = {} THEN <<>>
    ELSE LET h == CHOOSE x \in todo : \A y \in todo : x <= y IN
         HoleBonus(player_id, h, holes[h])
             \o HolesBonuses(player_id, holes, todo \ {h})

RECURSIVE ScorecardBonuses(_, _, _)
\* the loop over the scorecard records of one player
ScorecardBonuses(player_id, cards, round_id) ==
    IF cards = <<>> THEN <<>>
    ELSE (IF Head(cards).roundId = round_id
          THEN HolesBonuses(player_id, Head(cards).holes, DOMAIN Head(cards).holes)
          ELSE <<>>)
         \o ScorecardBonuses(player_id, Tail(cards), round_id)

\* scorecard_data.get(player_id, [])
CardsOf(sc, player_id) == IF player_id \in DOMAIN sc THEN sc[player_id] ELSE <<>>

RECURSIVE PlayerBonuses(_, _, _, _)
\* the loop "for player_id in player_ids"
PlayerBonuses(player_ids, lb, sc, round_id) ==
    IF player_ids = <<>> THEN <<>>
    ELSE LET p == Head(player_ids) IN
         (IF LowScorePlayer(lb) = p THEN <<Bonus(p, "low_score", 1, 0)>> ELSE <<>>)
             \o ScorecardBonuses(p, CardsOf(sc, p), round_id)
             \o PlayerBonuses(Tail(player_ids), lb, sc, round_id)

\* mutant: the eligibility check reads the substituted lineup
AllMadeCut_Substituted(entry, lb) ==
    \A i \in SlotIds :
        get_player_status(lb, BonusPlayerIds(entry, 3)[i]) \notin CutStatuses

\* all six original players have a status other than cut, wd, dq
AllMadeCut(entry, lb) ==
    \A i \in SlotIds : get_player_status(lb, entry.player_ids[i]) \notin CutStatuses

\* mutant: a forfeited entry can still earn the weekend bonus
WeekendBonusAwarded_IgnoresForfeit(entry, lb, round_id) ==
    /\ round_id = 3
    /\ AllMadeCut(entry, lb)
    /\ ~entry.weekend_bonus_earned

\* the weekend team bonus is awarded by this pass
WeekendBonusAwarded(entry, lb, round_id) ==
    /\ round_id = 3
    /\ ~entry.weekend_bonus_forfeited
    /\ AllMadeCut(entry, lb)
    /\ ~entry.weekend_bonus_earned

\* returns the bonus list and the entry's weekend_bonus_earned afterwards
calculate_bonus_points(entry_id, entry, lb, sc, round_id, rows) ==
    LET player_ids == BonusPlayerIds(entry, round_id)
        awarded == WeekendBonusAwarded(entry, lb, round_id)
    IN  [bonuses |->
            ManualBonuses(rows, entry_id, round_id, player_ids)
                \o PlayerBonuses(player_ids, lb, sc, round_id)
                \o (IF awarded THEN <<Bonus("None", "all_make_cut", 5, 0)>> ELSE <<>>),
         weekend_bonus_earned |-> entry.weekend_bonus_earned \/ awarded]

-----------------------------------------------------------------------------
(* Daily Score Calculator *)

NoRow == [entry_id |-> 0]

ScoreKeyed(rows, entry_id, round_id) ==
    BagFilter(rows, LAMBDA d : d.entry_id = entry_id /\ d.round_id = round_id)

\* what "existing_score = query.first()" can return
ExistingScores(rows, entry_id, round_id) ==
    IF ScoreKeyed(rows, entry_id, round_id) = EmptyBag THEN {NoRow}
    ELSE DOMAIN ScoreKeyed(rows, entry_id, round_id)

\* mutant: no lookup of an existing row, every call adds one
SaveDailyScore_AlwaysInsert(rows, existing, row) ==
    rows (+) SetToBag({row})

\* the upsert of the DailyScore row
SaveDailyScore(rows, existing, row) ==
    IF existing # NoRow
    THEN (rows (-) SetToBag({existing})) (+) SetToBag({row})
    ELSE rows (+) SetToBag({row})

IsAutoRowOf(b, entry_id, round_id) ==
    /\ b.entry_id = entry_id
    /\ b.round_id = round_id
    /\ b.bonus_type \notin ManualTypes

\* mutant: the delete is not restricted to the automatic types
DeleteAutoBonuses_AllTypes(rows, entry_id, round_id) ==
    BagFilter(rows, LAMBDA b : ~(b.entry_id = entry_id /\ b.round_id = round_id))

\* the bulk delete of the automatic BonusPoint rows of (entry, round)
DeleteAutoBonuses(rows, entry_id, round_id) ==
    BagFilter(rows, LAMBDA b : ~IsAutoRowOf(b, entry_id, round_id))

\* the lookup before each insert: same entry, round, type and player, and
\* the same hole when the bonus has one
BonusExists(rows, entry_id, round_id, b) ==
    \E x \in DOMAIN rows :
        /\ x.entry_id = entry_id
        /\ x.round_id = round_id
        /\ x.bonus_type = b.bonus_type
        /\ x.player_id = b.player_id
        /\ (b.hole # 0 => x.hole = b.hole)

\* the rows the insert loop adds.  The session does not autoflush
\* (database.py), so each lookup sees the rows of the table (visible) and
\* none of the rows added earlier in the same loop.
NewBonusRows(visible, entry_id, round_id, bonuses) ==
    LET auto == SelectSeq(bonuses, LAMBDA b : b.bonus_type \notin ManualTypes)
        fresh == SelectSeq(auto, LAMBDA b : ~BonusExists(visible, entry_id, round_id, b))
    IN  SeqToBag([i \in 1..Len(fresh) |-> BonusRow(entry_id, round_id, fresh[i])])

\* the DailyScore row computed by a call
ComputedScore(entry_id, round_id, base, bonuses) ==
    [entry_id |-> entry_id, round_id |-> round_id,
     base_points |-> base.total_points,
     bonus_points |-> SumPoints(bonuses),
     total_points |-> base.total_points + SumPoints(bonuses),
     details |-> [base_breakdown |-> base.breakdown, bonuses |-> bonuses]]

\* calculate_and_save_daily_score on the database db; existing is the row
\* returned by the lookup of the DailyScore (NoRow when there is none)
calculate_and_save_daily_score(db, entry_id, round_id, lb, sc, existing) ==
    LET entry == db.entries[entry_id]
        base == calculate_daily_base_points(entry, lb, round_id)
        found == calculate_bonus_points(entry_id, entry, lb, sc, round_id,
                                        db.bonus_points)
        row == ComputedScore(entry_id, round_id, base, found.bonuses)
        visible == IF existing # NoRow
                   THEN DeleteAutoBonuses(db.bonus_points, entry_id, round_id)
                   ELSE db.bonus_points
    IN  [entries |-> [db.entries EXCEPT
                         ![entry_id].weekend_bonus_earned = found.weekend_bonus_earned],
         daily_scores |-> SaveDailyScore(db.daily_scores, existing, row),
         bonus_points |->
             visible (+) NewBonusRows(visible, entry_id, round_id, found.bonuses)]

-----------------------------------------------------------------------------
(* Rebuy import *)

RebuyTypes == {"missed_cut", "underperformer"}

\* one CSV row, with the participant resolved to an entry and the player
\* names resolved to ids ("None" when no player matches the name)
ImportRebuyRow(entry, row) ==
    IF \/ row.rebuy_type \notin RebuyTypes
       \/ ~InSeq(row.original, entry.player_ids)
       \/ row.rebuy = "None"
       \/ InSeq(row.original, entry.rebuy_original_player_ids)
    THEN entry
    ELSE [entry EXCEPT
             !.rebuy_original_player_ids = Append(@, row.original),
             !.rebuy_player_ids = Append(@, row.rebuy),
             !.rebuy_type = row.rebuy_type,
             !.weekend_bonus_forfeited = @ \/ row.rebuy_type = "underperformer"]

RECURSIVE import_rebuys(_, _)
\* the loop over the rows, then the commit
import_rebuys(ents, rows) ==
    IF rows = <<>> THEN ents
    ELSE LET r == Head(rows) IN
         import_rebuys(
             IF r.entry_id \in DOMAIN ents
             THEN [ents EXCEPT ![r.entry_id] = ImportRebuyRow(@, r)]
             ELSE ents,
             Tail(rows))

-----------------------------------------------------------------------------
(* Manual bonus points (administrator) *)

\* the entries that have the player, in the order of their ids
MatchingEntries(ents, req) ==
    {e \in DOMAIN ents :
        \/ InSeq(req.player_id, ents[e].player_ids)
        \/ /\ req.round_id >= 3
           /\ ents[e].rebuy_player_ids # <<>>
           /\ InSeq(req.player_id, ents[e].rebuy_player_ids)}

ManualRowExists(rows, entry_id, req) ==
    \E x \in DOMAIN rows :
        /\ x.entry_id = entry_id
        /\ x.round_id = req.round_id
        /\ x.bonus_type = req.bonus_type
        /\ x.player_id = req.player_id

ManualRowsToAdd(db, req) ==
    {[entry_id |-> e, round_id |-> req.round_id, bonus_type |-> req.bonus_type,
      points |-> req.points, player_id |-> req.player_id, hole |-> 0] :
        e \in {m \in MatchingEntries(db.entries, req) :
                  ~ManualRowExists(db.bonus_points, m, req)}}

RECURSIVE RecalculateEntries(_, _, _, _)
\* the recalculation loop over the matching entries
RecalculateEntries(db, todo, round_id, snap) ==
    IF todo = {} THEN db
    ELSE LET e == CHOOSE x \in todo : \A y \in todo : x <= y
             existing == CHOOSE d \in ExistingScores(db.daily_scores, e, round_id) : TRUE
         IN  RecalculateEntries(
                 calculate_and_save_daily_score(db, e, round_id, snap.lb, snap.sc, existing),
                 todo \ {e}, round_id, snap)

\* POST /bonus-points/add; snap is the latest stored snapshot of the round
\* (found = FALSE when the round has none)
add_bonus_point(db, req, snap) ==
    IF req.bonus_type \notin ManualTypes \/ MatchingEntries(db.entries, req) = {}
    THEN db
    ELSE LET added == [db EXCEPT
                          !.bonus_points = @ (+) SetToBag(ManualRowsToAdd(db, req))]
         IN  IF snap.found
             THEN RecalculateEntries(added, MatchingEntries(db.entries, req),
                                     req.round_id, snap)
             ELSE added

-----------------------------------------------------------------------------
(* Inputs: players, entries, snapshots, CSV rows, bonus requests *)

FreshEntry(player_ids) ==
    [player_ids |-> player_ids,
     rebuy_original_player_ids |-> <<>>,
     rebuy_player_ids |-> <<>>,
     rebuy_type |-> "None",
     weekend_bonus_earned |-> FALSE,
     weekend_bonus_forfeited |-> FALSE]

\* entry 1 picked p1..p6; p7 is in the field but in no original lineup
EntryOne == FreshEntry(<<"p1", "p2", "p3", "p4", "p5", "p6">>)

\* a finished round: everybody complete, p1 leads and has the low score
LeaderboardA ==
    <<Row("p1", Str(<<"1">>), "complete", <<"-", "5">>),
      Row("p7", Str(<<"T", "2">>), "complete", <<"-", "4">>),
      Row("p2", Str(<<"T", "2">>), "complete", <<"-", "4">>),
      Row("p3", Str(<<"6">>), "complete", <<"-", "1">>),
      Row("p4", Str(<<"T", "1", "1">>), "complete", <<"E">>),
      Row("p5", Str(<<"2", "6">>), "complete", <<"+", "1">>),
      Row("p6", Str(<<"3", "0">>), "complete", <<"+", "2">>)>>

\* a round in progress after the cut: p1 leads but has not finished, p2 is
\* the only original player cut and still carries a numeric position, p5 is
\* not listed, p7 and p3 share the low score (p7 is met first)
LeaderboardB ==
    <<Row("p1", Str(<<"1">>), "active", <<"-", "3">>),
      Row("p7", Str(<<"T", "2">>), "complete", <<"-", "6">>),
      Row("p2", Str(<<"T", "2">>), "cut", <<"+", "3">>),
      Row("p3", Str(<<"T", "6">>), "complete", <<"-", "6">>),
      Row("p4", Str(<<"1", "2">>), "active", <<"x">>),
      Row("p6", Str(<<"T", "4", "0">>), "complete", <<"+", "5">>)>>

\* a finished round in which p4 withdrew and p6 missed the cut; p3 won, p1
\* shares position 1 further down, p7 did not finish
LeaderboardC ==
    <<Row("p3", Str(<<"1">>), "complete", <<"-", "2">>),
      Row("p1", Str(<<"1">>), "complete", <<"-", "2">>),
      Row("p2", Str(<<"5">>), "complete", <<"E">>),
      Row("p5", Str(<<"1", "0">>), "complete", <<"+", "1">>),
      Row("p7", Str(<<"T", "2", "5">>), "dq", <<"-", "7">>),
      Row("p4", Str(<<"W", "D">>), "wd", <<>>),
      Row("p6", Str(<<"C", "U", "T">>), "cut", <<"+", "5">>)>>

Hole(strokes, par) == [holeScore |-> strokes, par |-> par]

NoScorecards == <<>>

\* p1: an eagle and a hole in one in round 1, a double eagle in round 3;
\* p7: an eagle in round 3 and a birdie in round 4
ScorecardsA ==
    [p \in {"p1", "p7"} |->
        IF p = "p1"
        THEN << [roundId |-> 1, holes |-> (5 :> Hole(3, 5)) @@ (7 :> Hole(1, 3))],
                [roundId |-> 3, holes |-> (5 :> Hole(2, 5)) @@ (6 :> Hole(4, 4))] >>
        ELSE << [roundId |-> 3, holes |-> (2 :> Hole(2, 4))],
                [roundId |-> 4, holes |-> (9 :> Hole(3, 4))] >>]

SnapshotInputs ==
    <<[found |-> TRUE, lb |-> LeaderboardA, sc |-> ScorecardsA],
      [found |-> TRUE, lb |-> LeaderboardB, sc |-> NoScorecards],
      [found |-> TRUE, lb |-> LeaderboardC, sc |-> ScorecardsA]>>

NoSnapshot == [found |-> FALSE, lb |-> <<>>, sc |-> <<>>]

SnapshotIds == 1..Len(SnapshotInputs)

RebuyRow(entry_id, original, rebuy, rebuy_type) ==
    [entry_id |-> entry_id, original |-> original, rebuy |-> rebuy,
     rebuy_type |-> rebuy_type]

\* rebuy CSV rows: a cut player swapped for p7, the leader swapped for p7 as
\* an underperformer, a swap to a player already in the lineup, and a row
\* that is skipped (unknown rebuy type)
RebuyRowInputs ==
    {RebuyRow(1, "p2", "p7", "missed_cut"),
     RebuyRow(1, "p1", "p7", "underperformer"),
     RebuyRow(1, "p6", "p3", "missed_cut"),
     RebuyRow(1, "p4", "p7", "swap")}

BonusRequest(round_id, player_id, bonus_type) ==
    [round_id |-> round_id, player_id |-> player_id, bonus_type |-> bonus_type,
     points |-> 1]

\* requests for the two manual types, and one for a type that is refused
BonusRequestInputs ==
    {BonusRequest(3, "p1", "gir_leader"),
     BonusRequest(3, "p7", "fairways_leader"),
     BonusRequest(3, "p1", "low_score")}

-----------------------------------------------------------------------------
(* Database state shared by the specifications *)

NoRace == [round_id |-> 0]

\* the score calculator service is not called
NoBatch == [pc |-> "idle"]

BatchUnused ==
    /\ score_snapshots = <<>>
    /\ ranking_snapshots = <<>>
    /\ batch = NoBatch
    /\ current_round = 1

NoDetectArgs == [current |-> <<>>, stored |-> <<>>]
DetectNotCalled == [called |-> FALSE, players |-> <<>>]

DetectUnused ==
    /\ detect_args = NoDetectArgs
    /\ detect_result = DetectNotCalled

NoBonusArgs == [round_id |-> 0]
BonusNotCalled == [called |-> FALSE]

\* no polling loop was started
NoDriver == [pc |-> "none"]

DriverUnused == driver = NoDriver

\* the jobs API is not called
NoJobs == [registry |-> 0]

JobsUnused == jobs = NoJobs

\* the components specified on their own are not called
RestUnused ==
    /\ bonus_args = NoBonusArgs
    /\ bonus_result = BonusNotCalled
    /\ DriverUnused
    /\ JobsUnused

InitDbEmpty ==
    /\ entries = <<>>
    /\ daily_scores = EmptyBag
    /\ bonus_points = EmptyBag
    /\ last_call = [op |-> "none"]
    /\ calls = 0
    /\ race = NoRace
    /\ BatchUnused
    /\ DetectUnused
    /\ RestUnused

-----------------------------------------------------------------------------
(* Specification of the position scoring table alone *)

InitPoints ==
    /\ pp_args \in PointsArgs
    /\ pp_result = NotCalled
    /\ InitDbEmpty

\* one call of calculate_position_points on the drawn arguments
CallPositionPoints ==
    /\ pp_result = NotCalled
    /\ pp_result' =
           calculate_position_points(pp_args.position, pp_args.round_id,
                                     pp_args.is_winner, pp_args.status)
    /\ UNCHANGED <<pp_args, entries, daily_scores, bonus_points, last_call, calls, race>>
    /\ UNCHANGED <<batchVars, detectVars, restVars>>

NextPoints == CallPositionPoints

SpecPoints == InitPoints /\ [][NextPoints]_vars

-----------------------------------------------------------------------------
(* Specification of the calculator on one database, calls not overlapping *)

TheDb == [entries |-> entries, daily_scores |-> daily_scores,
          bonus_points |-> bonus_points]

SetDb(db) ==
    /\ entries' = db.entries
    /\ daily_scores' = db.daily_scores
    /\ bonus_points' = db.bonus_points

Init ==
    /\ pp_args = NoArgs
    /\ pp_result = NotCalled
    /\ entries = (1 :> EntryOne)
    /\ daily_scores = EmptyBag
    /\ bonus_points = EmptyBag
    /\ last_call = [op |-> "none"]
    /\ calls = 0
    /\ race = NoRace
    /\ BatchUnused
    /\ DetectUnused
    /\ RestUnused

\* one call of calculate_and_save_daily_score
CalculateAndSave ==
    \E e \in DOMAIN entries, r \in RoundIds, s \in SnapshotIds :
        \E existing \in ExistingScores(daily_scores, e, r) :
            /\ calls < MaxCalls
            /\ calls' = calls + 1
            /\ SetDb(calculate_and_save_daily_score(
                         TheDb, e, r, SnapshotInputs[s].lb, SnapshotInputs[s].sc,
                         existing))
            /\ last_call' = [op |-> "calculate", entry_id |-> e, round_id |-> r,
                             snapshot |-> s, updated |-> existing # NoRow]
            /\ UNCHANGED <<pp_args, pp_result, race, batchVars, detectVars, restVars>>

\* one rebuy CSV import
ImportRebuys ==
    \E n \in 1..MaxCsvRows :
        \E rows \in [1..n -> RebuyRowInputs] :
            /\ calls < MaxCalls
            /\ calls' = calls + 1
            /\ entries' = import_rebuys(entries, rows)
            /\ last_call' = [op |-> "import_rebuys"]
            /\ UNCHANGED <<daily_scores, bonus_points, pp_args, pp_result, race>>
            /\ UNCHANGED <<batchVars, detectVars, restVars>>

\* one manual bonus request of the administrator
AddBonusPoint ==
    \E req \in BonusRequestInputs :
        \E snap \in {SnapshotInputs[s] : s \in SnapshotIds} \cup {NoSnapshot} :
            /\ calls < MaxCalls
            /\ calls' = calls + 1
            /\ SetDb(add_bonus_point(TheDb, req, snap))
            /\ last_call' = [op |-> "add_bonus_point"]
            /\ UNCHANGED <<pp_args, pp_result, race, batchVars, detectVars, restVars>>

Next == CalculateAndSave \/ ImportRebuys \/ AddBonusPoint

Spec == Init /\ [][Next]_vars

-----------------------------------------------------------------------------
(* Specification of a manual run racing with the background driver        *)
(*                                                                         *)
(* The driver's loop iteration and the manually triggered run_once are     *)
(* coroutines of the one asyncio event loop of the server process.  From   *)
(* the sync to the end of calculate_scores_for_tournament neither contains *)
(* an await, so each runs to its end once started: the two computations of *)
(* a round interleave in either order, never inside a call.  Each uses its *)
(* own database session and commits before it ends.                        *)

Tasks == {"driver", "admin"}

\* the loop of calculate_scores_for_tournament over the entries, in the
\* order of their ids, on the latest snapshot of the round
CalculateAllEntries(db, round_id, snap) ==
    IF snap.found THEN RecalculateEntries(db, DOMAIN db.entries, round_id, snap)
    ELSE db

\* entry 1 before the race: as entered, or after one imported rebuy row
RaceEntryInputs == {ImportRebuyRow(EntryOne, row) : row \in RebuyRowInputs}

\* the manual bonus rows before the race: none, or one for p1 in the round
RaceManualInputs(round_id) ==
    {EmptyBag,
     SetToBag({BonusRow(1, round_id, Bonus("p1", "gir_leader", 1, 0))})}

InitRace ==
    /\ pp_args = NoArgs
    /\ pp_result = NotCalled
    /\ last_call = [op |-> "none"]
    /\ calls = 0
    /\ BatchUnused
    /\ DetectUnused
    /\ RestUnused
    /\ daily_scores = EmptyBag
    /\ \E entry \in RaceEntryInputs : entries = (1 :> entry)
    /\ \E r \in RoundIds, s \in SnapshotIds :
          /\ bonus_points \in RaceManualInputs(r)
          /\ race = [round_id |-> r, snapshot |-> s, done |-> {},
                     initial |-> [entries |-> entries, daily_scores |-> EmptyBag,
                                  bonus_points |-> bonus_points]]

\* one task calculates the round for every entry
RaceCalculate(task) ==
    /\ task \notin race.done
    /\ SetDb(CalculateAllEntries(TheDb, race.round_id, SnapshotInputs[race.snapshot]))
    /\ race' = [race EXCEPT !.done = @ \cup {task}]
    /\ last_call' = [op |-> "race", task |-> task]
    /\ UNCHANGED <<pp_args, pp_result, calls, batchVars, detectVars, restVars>>

\* the iteration of the background loop
DriverIteration == RaceCalculate("driver")

\* the manually triggered run
RunOnce == RaceCalculate("admin")

NextRace == DriverIteration \/ RunOnce

SpecRace == InitRace /\ [][NextRace]_vars

-----------------------------------------------------------------------------
(* Score calculator service: one round for every entry of the tournament,
   every round up to the current one, and the ranking snapshot that follows
   a round.  The service runs inside one request; its position in the loops
   is kept in batch.pc so that the order of its steps can be stated. *)

\* calls of the service per behaviour
MaxBatches == 1

\* round_id = None
NoneRound == 0

\* an element of a player's scorecard list that is not a dict (a JSON null)
NotADict == [notADict |-> TRUE]

\* scorecard.get("roundId") raises AttributeError on such an element; the loop
\* over the scorecards of the entry's players runs before calculate_bonus_points
\* touches the entry and before anything is added to the session
CalculationRaises(entry, sc, round_id) ==
    \E i \in SlotIds :
        LET cards == CardsOf(sc, BonusPlayerIds(entry, round_id)[i]) IN
        \E k \in 1..Len(cards) : cards[k] = NotADict

StoredSnapshot(round_id, lb, sc) == [round_id |-> round_id, lb |-> lb, sc |-> sc]

\* the ScoreSnapshot rows of a round, oldest first
RoundSnapshots(snaps, round_id) ==
    SelectSeq(snaps, LAMBDA s : s.round_id = round_id)

\* mutant: the lookup of the latest snapshot without the round filter
LatestSnapshot_AnyRound(snaps, round_id) ==
    IF snaps = <<>> THEN NoSnapshot
    ELSE [found |-> TRUE, lb |-> snaps[Len(snaps)].lb, sc |-> snaps[Len(snaps)].sc]

\* order_by(timestamp.desc()).first() among the snapshots of the round
LatestSnapshot(snaps, round_id) ==
    LET mine == RoundSnapshots(snaps, round_id) IN
    IF mine = <<>> THEN NoSnapshot
    ELSE [found |-> TRUE, lb |-> mine[Len(mine)].lb, sc |-> mine[Len(mine)].sc]

RECURSIVE MergeScorecards(_, _)
\* the loop over all_snapshots, which visits the newest snapshot first; mine
\* holds the snapshots not yet visited, oldest first
MergeScorecards(mine, merged) ==
    IF mine = <<>> THEN merged
    ELSE LET snap == mine[Len(mine)]
             next == IF DOMAIN snap.sc # {}
                     THEN [p \in DOMAIN merged \cup DOMAIN snap.sc |->
                              IF p \in DOMAIN snap.sc THEN snap.sc[p] ELSE merged[p]]
                     ELSE merged
         IN  MergeScorecards(SubSeq(mine, 1, Len(mine) - 1), next)

\* the scorecard data handed to the calculator
BatchScorecards(snaps, round_id) ==
    LET merged == MergeScorecards(RoundSnapshots(snaps, round_id), <<>>) IN
    IF DOMAIN merged # {} THEN merged ELSE LatestSnapshot(snaps, round_id).sc

\* the result returned when the round has no snapshot
NoSnapshotResult ==
    [success |-> FALSE,
     message |-> "No score snapshot found. Please sync tournament data first.",
     entries_processed |-> 0]

\* the results dict before the loop over the entries
NewResults(round_id) ==
    [success |-> TRUE, round_id |-> round_id, entries_processed |-> 0,
     entries_updated |-> 0, errors |-> <<>>]

RECURSIVE EntryOrder(_)
\* Entry rows in the order the query returns them (by id)
EntryOrder(ids) ==
    IF ids = {} THEN <<>>
    ELSE LET e == CHOOSE x \in ids : \A y \in ids : x <= y IN
         <<e>> \o EntryOrder(ids \ {e})

\* round_result.get(key, 0)
ResultGet(result, key) == IF key \in DOMAIN result THEN result[key] ELSE 0

RoundEvent(round_id, db_error) ==
    [ev |-> "round", round_id |-> round_id, db_error |-> db_error]
EntryEvent(entry_id, round_id, raised) ==
    [ev |-> "entry", entry_id |-> entry_id, round_id |-> round_id, raised |-> raised]
CaptureEvent(round_id, outcome) ==
    [ev |-> "capture", round_id |-> round_id, outcome |-> outcome]

\* the state of the service while no call has been made
IdleBatch ==
    [pc |-> "idle", mode |-> "none", round_id |-> 0, lb |-> <<>>, sc |-> <<>>,
     todo |-> <<>>, results |-> NewResults(0),
     all_results |-> [rounds_processed |-> <<>>, total_entries_processed |-> 0,
                      errors |-> <<>>],
     log |-> <<>>]

\* calculate_scores_for_tournament up to its loop over the entries; db_error
\* tells whether one of its queries raised
BeginRound(b, snaps, ids, round_id, db_error) ==
    LET snapshot == LatestSnapshot(snaps, round_id)
        started == [b EXCEPT !.round_id = round_id,
                             !.log = Append(@, RoundEvent(round_id, db_error)),
                             !.lb = <<>>, !.sc = <<>>, !.todo = <<>>]
    IN  IF db_error THEN [started EXCEPT !.pc = "raised"]
        ELSE IF ~snapshot.found
        THEN [started EXCEPT !.pc = "returned", !.results = NoSnapshotResult]
        ELSE [started EXCEPT !.pc = "entries",
                             !.lb = snapshot.lb,
                             !.sc = BatchScorecards(snaps, round_id),
                             !.todo = EntryOrder(ids),
                             !.results = NewResults(round_id)]

\* mutant: an exception leaves the loop
RemainingEntries_Abort(todo, raised) ==
    IF raised THEN <<>> ELSE Tail(todo)

\* the entries the loop still has to visit after one iteration: the except
\* clause swallows the exception
RemainingEntries(todo, raised) == Tail(todo)

\* the results dict after one iteration of the loop
EntryResults(results, entry_id, raised) ==
    IF raised
    THEN [results EXCEPT
             !.errors = Append(@, <<"Error calculating score for entry", entry_id>>),
             !.entries_processed = @ + 1]
    ELSE [results EXCEPT !.entries_processed = @ + 1, !.entries_updated = @ + 1]

\* mutant: the total is the score of the entry's latest round only
EntryTotal_LatestRound(rows, entry_id) ==
    LET mine == BagToSeq(BagFilter(rows, LAMBDA d : d.entry_id = entry_id))
        latest == SelectSeq(mine, LAMBDA d : \A i \in 1..Len(mine) :
                                                mine[i].round_id <= d.round_id)
    IN  SumSeq([i \in 1..Len(latest) |-> latest[i].total_points])

\* sum(score.total_points for score in daily_scores) of one entry
EntryTotal(rows, entry_id) ==
    LET mine == BagToSeq(BagFilter(rows, LAMBDA d : d.entry_id = entry_id)) IN
    SumSeq([i \in 1..Len(mine) |-> mine[i].total_points])

\* mutant: an entry goes in front of the entries it ties with
InsertByTotal_BeforeTies(sorted, x) ==
    LET k == Cardinality({i \in 1..Len(sorted) :
                             sorted[i].total_points > x.total_points})
    IN  SubSeq(sorted, 1, k) \o <<x>> \o SubSeq(sorted, k + 1, Len(sorted))

\* where the stable sort puts x, which came after every element of sorted
InsertByTotal(sorted, x) ==
    LET k == Cardinality({i \in 1..Len(sorted) :
                             sorted[i].total_points >= x.total_points})
    IN  SubSeq(sorted, 1, k) \o <<x>> \o SubSeq(sorted, k + 1, Len(sorted))

RECURSIVE SortByTotal(_)
\* leaderboard_data.sort(key=total_points, reverse=True): stable
SortByTotal(xs) ==
    IF xs = <<>> THEN <<>>
    ELSE InsertByTotal(SortByTotal(SubSeq(xs, 1, Len(xs) - 1)), xs[Len(xs)])

\* mutant: a row is written only when the entry's total or rank has changed
ShouldCreate_OnlyOnChange(stored, row) ==
    LET mine == SelectSeq(stored, LAMBDA s : s.entry_id = row.entry_id) IN
    \/ mine = <<>>
    \/ mine[Len(mine)].total_points # row.total_points
    \/ mine[Len(mine)].position # row.position

\* should_create
ShouldCreate(stored, row) == TRUE

\* the RankingSnapshot rows _capture_ranking_snapshot computes
RankingRows(rows, ids, round_id) ==
    LET order == EntryOrder(ids)
        leaderboard_data ==
            SortByTotal([i \in 1..Len(order) |->
                            [entry_id |-> order[i],
                             total_points |-> EntryTotal(rows, order[i])]])
        leader_points == IF leaderboard_data = <<>> THEN 0
                         ELSE leaderboard_data[1].total_points
    IN  [position \in 1..Len(leaderboard_data) |->
            [entry_id |-> leaderboard_data[position].entry_id,
             round_id |-> round_id,
             position |-> position,
             total_points |-> leaderboard_data[position].total_points,
             points_behind_leader |->
                 IF leader_points > 0
                 THEN leader_points - leaderboard_data[position].total_points
                 ELSE 0]]

\* the RankingSnapshot table after _capture_ranking_snapshot has committed
capture_ranking_snapshot(stored, rows, ids, round_id) ==
    LET computed == RankingRows(rows, ids, round_id) IN
    stored \o SelectSeq(computed, LAMBDA row : ShouldCreate(stored, row))

\* mutant: the capture is skipped when an entry has raised
CaptureDue_NoErrors(results) ==
    results.success /\ results.errors = <<>>

\* if results["success"]: after the loop
CaptureDue(results) == results.success

\* mutant: a failed capture fails the calculation
CaptureFailed_Unsuccessful(results) ==
    [results EXCEPT !.success = FALSE,
                    !.errors = Append(@, <<"Warning: Ranking snapshot failed">>)]

\* the except clause around the capture
CaptureFailed(results) ==
    [results EXCEPT !.errors = Append(@, <<"Warning: Ranking snapshot failed">>)]

\* what calculate_all_rounds keeps of a round that returned
RoundCollected(all_results, round_id, round_result) ==
    [all_results EXCEPT
        !.rounds_processed =
            Append(@, [round_id |-> round_id,
                       entries_processed |-> ResultGet(round_result, "entries_processed"),
                       entries_updated |-> ResultGet(round_result, "entries_updated")]),
        !.total_entries_processed = @ + ResultGet(round_result, "entries_processed")]

\* what calculate_all_rounds keeps of a round that raised
RoundRaised(all_results, round_id) ==
    [all_results EXCEPT !.errors = Append(@, <<"Error calculating round", round_id>>)]

(* Inputs of the service *)

\* the first round of the pool's worked example: p1..p6 hold positions 1, 2,
\* 5, 10, 20 and 30
LeaderboardD ==
    <<Row("p1", Str(<<"1">>), "complete", <<"-", "5">>),
      Row("p2", Str(<<"2">>), "complete", <<"-", "4">>),
      Row("p7", Str(<<"T", "3">>), "complete", <<"-", "3">>),
      Row("p3", Str(<<"5">>), "complete", <<"-", "2">>),
      Row("p4", Str(<<"1", "0">>), "complete", <<"E">>),
      Row("p5", Str(<<"2", "0">>), "complete", <<"+", "1">>),
      Row("p6", Str(<<"3", "0">>), "complete", <<"+", "2">>)>>

\* entries 1 and 3 picked the same six players, entry 2 picked p7 for p1
BatchEntries ==
    <<EntryOne,
      FreshEntry(<<"p7", "p2", "p3", "p4", "p5", "p6">>),
      EntryOne>>

\* p7's scorecard list holds a null
ScorecardsNullP7 == [p \in {"p7"} |-> <<NotADict>>]

\* p2's scorecard list holds a null
ScorecardsNullP2 == [p \in {"p2"} |-> <<NotADict>>]

\* a later fetch of p1's round-1 card alone, with the eagle on hole 5 only
ScorecardsP1 ==
    [p \in {"p1"} |-> << [roundId |-> 1, holes |-> (5 :> Hole(3, 5))] >>]

\* the stored snapshots, oldest first: rounds 1 to 3 synced (round 4 not
\* yet); round 2 missing and round 1 synced twice; nothing synced
StoredSnapshotInputs ==
    { <<StoredSnapshot(1, LeaderboardD, NoScorecards),
        StoredSnapshot(2, LeaderboardB, ScorecardsNullP7),
        StoredSnapshot(3, LeaderboardA, ScorecardsA)>>,
      <<StoredSnapshot(1, LeaderboardA, ScorecardsA),
        StoredSnapshot(1, LeaderboardD, ScorecardsP1),
        StoredSnapshot(3, LeaderboardC, ScorecardsA),
        StoredSnapshot(4, LeaderboardA, ScorecardsNullP2)>>,
      <<>> }

CurrentRoundInputs == {3, 4}

(* The specification of the service *)

InitBatch ==
    /\ pp_args = NoArgs
    /\ pp_result = NotCalled
    /\ entries = BatchEntries
    /\ daily_scores = EmptyBag
    /\ bonus_points = EmptyBag
    /\ last_call = [op |-> "none"]
    /\ calls = 0
    /\ race = NoRace
    /\ DetectUnused
    /\ RestUnused
    /\ score_snapshots \in StoredSnapshotInputs
    /\ current_round \in CurrentRoundInputs
    /\ ranking_snapshots = <<>>
    /\ batch = IdleBatch

\* no call of the service is under way
BatchAtRest ==
    \/ batch.pc \in {"idle", "all_returned"}
    \/ batch.mode = "round" /\ batch.pc \in {"returned", "raised"}

\* a request that calls calculate_scores_for_tournament(tournament_id, round_id)
CalculateRound ==
    \E round_id \in RoundIds \cup {NoneRound} :
        \E db_error \in BOOLEAN :
            /\ BatchAtRest
            /\ calls < MaxBatches
            /\ calls' = calls + 1
            /\ batch' = BeginRound([IdleBatch EXCEPT !.mode = "round"],
                                   score_snapshots, DOMAIN entries,
                                   IF round_id = NoneRound THEN current_round
                                   ELSE round_id,
                                   db_error)
            /\ UNCHANGED <<pp_args, pp_result, entries, daily_scores, bonus_points,
                           last_call, race, score_snapshots, ranking_snapshots,
                           current_round, detectVars, restVars>>

\* one iteration of "for entry in entries"
CalculateEntry ==
    /\ batch.pc = "entries"
    /\ batch.todo # <<>>
    /\ LET e == Head(batch.todo)
           raised == CalculationRaises(entries[e], batch.sc, batch.round_id)
       IN  /\ IF raised
              THEN UNCHANGED <<entries, daily_scores, bonus_points>>
              ELSE \E existing \in ExistingScores(daily_scores, e, batch.round_id) :
                       SetDb(calculate_and_save_daily_score(
                                 TheDb, e, batch.round_id, batch.lb, batch.sc, existing))
           /\ batch' = [batch EXCEPT
                           !.todo = RemainingEntries(@, raised),
                           !.results = EntryResults(@, e, raised),
                           !.log = Append(@, EntryEvent(e, batch.round_id, raised))]
    /\ UNCHANGED <<pp_args, pp_result, last_call, calls, race, score_snapshots,
                   ranking_snapshots, current_round, detectVars, restVars>>

\* what the try block after the loop can do: the capture and the start of
\* the notification succeed; a query or the commit of the capture raises
\* and no row is stored; or the rows are committed and the start of the
\* notification raises (asyncio.create_task without a running event loop)
CaptureOutcomes == {"ok", "capture_raised", "notify_raised"}

\* the end of calculate_scores_for_tournament: the capture of the ranking
\* snapshot and the return
FinishRound ==
    /\ batch.pc = "entries"
    /\ batch.todo = <<>>
    /\ IF CaptureDue(batch.results)
       THEN \E outcome \in CaptureOutcomes :
                /\ ranking_snapshots' =
                       IF outcome = "capture_raised" THEN ranking_snapshots
                       ELSE capture_ranking_snapshot(ranking_snapshots, daily_scores,
                                                     DOMAIN entries, batch.round_id)
                /\ batch' = [batch EXCEPT
                                !.pc = "returned",
                                !.results = IF outcome = "ok" THEN @
                                            ELSE CaptureFailed(@),
                                !.log = Append(@, CaptureEvent(batch.round_id,
                                                               outcome))]
       ELSE /\ batch' = [batch EXCEPT !.pc = "returned"]
            /\ UNCHANGED ranking_snapshots
    /\ UNCHANGED <<pp_args, pp_result, entries, daily_scores, bonus_points, last_call,
                   calls, race, score_snapshots, current_round, detectVars, restVars>>

\* a request that calls calculate_all_rounds(tournament_id)
CalculateAllRounds ==
    /\ BatchAtRest
    /\ calls < MaxBatches
    /\ calls' = calls + 1
    /\ batch' = [IdleBatch EXCEPT !.mode = "all_rounds", !.pc = "next_round"]
    /\ UNCHANGED <<pp_args, pp_result, entries, daily_scores, bonus_points, last_call,
                   race, score_snapshots, ranking_snapshots, current_round, detectVars, restVars>>

\* "for round_id in range(1, current_round + 1)": the next round is called
NextRound ==
    /\ batch.pc = "next_round"
    /\ batch.round_id < current_round
    /\ \E db_error \in BOOLEAN :
           batch' = BeginRound(batch, score_snapshots, DOMAIN entries,
                               batch.round_id + 1, db_error)
    /\ UNCHANGED <<pp_args, pp_result, entries, daily_scores, bonus_points, last_call,
                   calls, race, score_snapshots, ranking_snapshots, current_round,
                   detectVars, restVars>>

\* the round's call has returned or raised inside the loop of
\* calculate_all_rounds
CollectRound ==
    /\ batch.mode = "all_rounds"
    /\ batch.pc \in {"returned", "raised"}
    /\ batch' = [batch EXCEPT
                    !.pc = "next_round",
                    !.all_results =
                        IF batch.pc = "raised"
                        THEN RoundRaised(@, batch.round_id)
                        ELSE RoundCollected(@, batch.round_id, batch.results)]
    /\ UNCHANGED <<pp_args, pp_result, entries, daily_scores, bonus_points, last_call,
                   calls, race, score_snapshots, ranking_snapshots, current_round,
                   detectVars, restVars>>

\* calculate_all_rounds returns its results
ReturnAllRounds ==
    /\ batch.pc = "next_round"
    /\ batch.round_id >= current_round
    /\ batch' = [batch EXCEPT !.pc = "all_returned"]
    /\ UNCHANGED <<pp_args, pp_result, entries, daily_scores, bonus_points, last_call,
                   calls, race, score_snapshots, ranking_snapshots, current_round,
                   detectVars, restVars>>

NextBatch ==
    \/ CalculateRound
    \/ CalculateEntry
    \/ FinishRound
    \/ CalculateAllRounds
    \/ NextRound
    \/ CollectRound
    \/ ReturnAllRounds

SpecBatch == InitBatch /\ [][NextBatch]_vars

-----------------------------------------------------------------------------
(* Scorecard change detector of the data sync *)

\* _parse_round_score; ok = FALSE stands for None
parse_round_score(score_str) ==
    IF score_str = <<>> THEN [ok |-> FALSE, val |-> 0]
    ELSE IF Head(score_str) = "-"
    THEN LET n == PyInt(Tail(score_str)) IN
         [ok |-> n.ok, val |-> IF n.ok THEN 0 - n.val ELSE 0]
    ELSE IF Head(score_str) = "+" THEN PyInt(Tail(score_str))
    ELSE IF score_str = <<"E">> THEN [ok |-> TRUE, val |-> 0]
    ELSE PyInt(score_str)

\* a dict is the sequence of its items in insertion order
DictKeys(d) == {d[i].key : i \in 1..Len(d)}

\* d[key] = value: a key already present keeps its place
DictSet(d, key, value) ==
    IF key \in DictKeys(d)
    THEN [i \in 1..Len(d) |-> IF d[i].key = key THEN [key |-> key, value |-> value]
                              ELSE d[i]]
    ELSE Append(d, [key |-> key, value |-> value])

\* d.get(key), for a key that is present
DictValue(d, key) == d[CHOOSE i \in 1..Len(d) : d[i].key = key].value

RECURSIVE CurrentScores(_, _)
\* the loop that fills current_scores
CurrentScores(rows, d) ==
    IF rows = <<>> THEN d
    ELSE LET row == Head(rows) IN
         IF StatusLower(row.status) \in {"wd", "dq", "cut"}
                \/ row.currentRoundScore = <<>>
         THEN CurrentScores(Tail(rows), d)
         ELSE CurrentScores(Tail(rows),
                            DictSet(d, row.playerId,
                                    parse_round_score(row.currentRoundScore)))

RECURSIVE PreviousScores(_, _)
\* the loop that fills previous_scores
PreviousScores(rows, d) ==
    IF rows = <<>> THEN d
    ELSE LET row == Head(rows) IN
         IF row.currentRoundScore # <<>>
         THEN PreviousScores(Tail(rows),
                             DictSet(d, row.playerId,
                                     parse_round_score(row.currentRoundScore)))
         ELSE PreviousScores(Tail(rows), d)

\* mutant: one stroke is enough
ImprovedEnough_ByOne(previous_score, current_score) ==
    previous_score - current_score >= 1

\* score_improvement >= 2
ImprovedEnough(previous_score, current_score) ==
    previous_score - current_score >= 2

RECURSIVE CompareScores(_, _)
\* the loop over current_scores.items()
CompareScores(current_scores, previous_scores) ==
    IF current_scores = <<>> THEN <<>>
    ELSE LET item == Head(current_scores)
             rest == CompareScores(Tail(current_scores), previous_scores)
         IN  IF ~item.value.ok THEN rest
             ELSE IF item.key \notin DictKeys(previous_scores) THEN rest
             ELSE LET previous == DictValue(previous_scores, item.key) IN
                  IF ~previous.ok THEN rest
                  ELSE IF ImprovedEnough(previous.val, item.value.val)
                  THEN << [player_id |-> item.key,
                           previous_score |-> previous.val,
                           current_score |-> item.value.val,
                           improvement |-> previous.val - item.value.val] >> \o rest
                  ELSE rest

\* order_by(timestamp.desc()).offset(1).first() on the leaderboards of the
\* round's stored snapshots (oldest first)
PreviousSnapshot(stored) ==
    IF Len(stored) >= 2 THEN [found |-> TRUE, lb |-> stored[Len(stored) - 1]]
    ELSE [found |-> FALSE, lb |-> <<>>]

\* detect_scorecard_changes for the leaderboard just fetched; stored holds
\* the leaderboards of the snapshots of the round in the database
detect_scorecard_changes(current_leaderboard, stored) ==
    LET previous_snapshot == PreviousSnapshot(stored) IN
    IF ~previous_snapshot.found THEN <<>>
    ELSE CompareScores(CurrentScores(current_leaderboard, <<>>),
                       PreviousScores(previous_snapshot.lb, <<>>))

(* Inputs of the detector *)

\* "", E, -3, -4, -5, +1, 2, three strings that are no score, and "--5",
\* which int() after the leading "-" still reads
ScoreInputs ==
    { <<>>, <<"E">>, <<"-", "3">>, <<"-", "4">>, <<"-", "5">>, <<"+", "1">>,
      <<"2">>, <<"x">>, <<"-">>, <<"-", "-">>, <<"-", "-", "5">> }

DetectStatusInputs == {"active", "complete", "cut", "WD"}

\* the leaderboard just fetched: a row of p1, and p2 one stroke better than
\* before, disqualified, or not listed
CurrentLeaderboardInputs ==
    { <<Row("p1", Str(<<"1">>), status, score)>> \o others :
        status \in DetectStatusInputs, score \in ScoreInputs,
        others \in { <<Row("p2", Str(<<"2">>), "active", <<"-", "4">>)>>,
                     <<Row("p2", Str(<<"2">>), "dq", <<"-", "5">>)>>,
                     <<>> } }

\* an earlier leaderboard: p2 at -3, before it p1 with any score or a cut
\* p1 or no p1
EarlierLeaderboardInputs ==
    { p1 \o <<Row("p2", Str(<<"2">>), "active", <<"-", "3">>)>> :
        p1 \in { <<Row("p1", Str(<<"1">>), "active", score)>> : score \in ScoreInputs }
               \cup { <<Row("p1", Str(<<"C", "U", "T">>), "cut", <<"-", "3">>)>>, <<>> } }

\* the newest stored leaderboard when two are stored
NewestStoredLeaderboard ==
    <<Row("p1", Str(<<"1">>), "active", <<"+", "1">>),
      Row("p2", Str(<<"2">>), "active", <<"+", "1">>)>>

\* nothing stored, one snapshot stored, two snapshots stored
StoredLeaderboardInputs ==
    { <<>> } \cup { <<lb>> : lb \in EarlierLeaderboardInputs }
             \cup { <<lb, NewestStoredLeaderboard>> : lb \in EarlierLeaderboardInputs }

(* The specification of the detector alone *)

InitDetect ==
    /\ pp_args = NoArgs
    /\ pp_result = NotCalled
    /\ entries = <<>>
    /\ daily_scores = EmptyBag
    /\ bonus_points = EmptyBag
    /\ last_call = [op |-> "none"]
    /\ calls = 0
    /\ race = NoRace
    /\ BatchUnused
    /\ detect_args \in [current : CurrentLeaderboardInputs,
                         stored : StoredLeaderboardInputs]
    /\ detect_result = DetectNotCalled
    /\ RestUnused

DetectScorecardChanges ==
    /\ detect_result = DetectNotCalled
    /\ detect_result' =
           [called |-> TRUE,
            players |-> detect_scorecard_changes(detect_args.current,
                                                 detect_args.stored)]
    /\ UNCHANGED <<pp_args, pp_result, entries, daily_scores, bonus_points,
                   last_call, calls, race, batchVars, detect_args, restVars>>

NextDetect == DetectScorecardChanges

SpecDetect == InitDetect /\ [][NextDetect]_vars

-----------------------------------------------------------------------------
(* Bonus detector alone: one call of calculate_bonus_points *)

\* currentRoundScore values: under par, over par, even, a bare number, a
\* bare sign, the empty string, and two signs
BonusScoreInputs ==
    { <<"-", "2">>, <<"-", "1">>, <<"+", "1">>, <<"E">>, <<"1">>, <<"-">>,
      <<>>, <<"-", "-", "3">>, <<"+", "-", "3">> }

BonusStatusInputs == {"complete", "active"}

\* p7 (in no original lineup) is listed before p1; p3 finished at -1
BonusLeaderboardInputs ==
    { <<Row("p7", Str(<<"1">>), st7, s7),
        Row("p1", Str(<<"2">>), st1, s1),
        Row("p3", Str(<<"3">>), "complete", <<"-", "1">>)>> :
        st7 \in BonusStatusInputs, s7 \in BonusScoreInputs,
        st1 \in BonusStatusInputs, s1 \in BonusScoreInputs }

\* holes as the feed can give them; 0 stands for a missing or zero value
HoleInputs == { Hole(strokes, par) : strokes \in 0..3, par \in {0, 3, 4, 5} }

ScorecardRoundInputs == {1, 3}

\* p1 has a record of round r with holes 4 and 5 and a record of the other
\* round with an eagle on hole 4; p3 and p7 each have an eagle in round 3
BonusScorecardInputs ==
    { [p \in {"p1", "p3", "p7"} |->
          IF p = "p1"
          THEN << [roundId |-> r, holes |-> (4 :> h4) @@ (5 :> h5)],
                  [roundId |-> 4 - r, holes |-> (4 :> Hole(2, 4))] >>
          ELSE IF p = "p3"
          THEN << [roundId |-> 3, holes |-> (8 :> Hole(3, 5))] >>
          ELSE << [roundId |-> 3, holes |-> (2 :> Hole(2, 4))] >>] :
        r \in ScorecardRoundInputs, h4 \in HoleInputs, h5 \in HoleInputs }

\* no rebuy; p1 swapped for p7; p6 swapped for p3, who is already picked
BonusEntryInputs ==
    { EntryOne,
      ImportRebuyRow(EntryOne, RebuyRow(1, "p1", "p7", "underperformer")),
      ImportRebuyRow(EntryOne, RebuyRow(1, "p6", "p3", "missed_cut")) }

BonusArgs(entry, lb, sc, round_id) ==
    [entry |-> entry, lb |-> lb, sc |-> sc, round_id |-> round_id]

\* the leaderboard varies with the scorecards fixed, and the other way round
BonusArgInputs ==
    { BonusArgs(entry, lb, ScorecardsA, round_id) :
        entry \in BonusEntryInputs, lb \in BonusLeaderboardInputs,
        round_id \in ScorecardRoundInputs }
    \cup
    { BonusArgs(entry, LeaderboardB, sc, round_id) :
        entry \in BonusEntryInputs, sc \in BonusScorecardInputs,
        round_id \in ScorecardRoundInputs }

InitBonus ==
    /\ pp_args = NoArgs
    /\ pp_result = NotCalled
    /\ entries = <<>>
    /\ daily_scores = EmptyBag
    /\ bonus_points = EmptyBag
    /\ last_call = [op |-> "none"]
    /\ calls = 0
    /\ race = NoRace
    /\ BatchUnused
    /\ DetectUnused
    /\ bonus_args \in BonusArgInputs
    /\ bonus_result = BonusNotCalled
    /\ DriverUnused
    /\ JobsUnused

\* calculate_bonus_points(entry, leaderboard_data, scorecard_data, round_id)
\* with no manual bonus stored
CalculateBonusPoints ==
    /\ bonus_result = BonusNotCalled
    /\ LET out == calculate_bonus_points(1, bonus_args.entry, bonus_args.lb,
                                         bonus_args.sc, bonus_args.round_id,
                                         EmptyBag)
       IN  bonus_result' = [called |-> TRUE, bonuses |-> out.bonuses,
                            weekend_bonus_earned |-> out.weekend_bonus_earned]
    /\ UNCHANGED <<pp_args, pp_result, entries, daily_scores, bonus_points,
                   last_call, calls, race, batchVars, detectVars, bonus_args,
                   driver, jobs>>

NextBonus == CalculateBonusPoints

SpecBonus == InitBonus /\ [][NextBonus]_vars

-----------------------------------------------------------------------------
(* Data sync: one poll fetches the leaderboard, asks the detector which
   scorecards to fetch, fetches them and stores the snapshot *)

MaxSyncs == 3

\* the rounds the feed reports as current
SyncRoundInputs == {1, 2}

\* the leaderboard of a poll: p1 at -3, -5 or -6, p2 at -3
SyncLeaderboardInputs ==
    { <<Row("p1", Str(<<"1">>), "active", score),
        Row("p2", Str(<<"2">>), "active", <<"-", "3">>)>> :
        score \in { <<"-", "3">>, <<"-", "5">>, <<"-", "6">> } }

\* the poll ends normally, or get_tournament or get_leaderboard raises
SyncOutcomes == {"ok", "tournament_raised", "leaderboard_raised"}

\* what get_scorecard returns for a player
FetchedScorecard(player_id, round_id) ==
    << [roundId |-> round_id, holes |-> (5 :> Hole(3, 5))] >>

\* the leaderboards of the stored snapshots of the round, oldest first
StoredLeaderboards(snaps, round_id) ==
    LET mine == RoundSnapshots(snaps, round_id) IN
    [i \in 1..Len(mine) |-> mine[i].lb]

\* the scorecard_data of the poll: the detected players whose fetch did not
\* raise
SyncScorecards(players_to_fetch, failed, round_id) ==
    LET fetched == {players_to_fetch[i].player_id : i \in 1..Len(players_to_fetch)}
                       \ failed
    IN  [p \in fetched |-> FetchedScorecard(p, round_id)]

InitSync ==
    /\ pp_args = NoArgs
    /\ pp_result = NotCalled
    /\ InitDbEmpty

\* sync_tournament_data: sync_tournament stores the round the feed reports,
\* the detector runs on the snapshots stored so far, then the snapshot of
\* this poll is saved
SyncTournamentData ==
    \E api_round \in SyncRoundInputs, lb \in SyncLeaderboardInputs,
       outcome \in SyncOutcomes, failed \in SUBSET {"p1", "p2"} :
        /\ calls < MaxSyncs
        /\ calls' = calls + 1
        /\ api_round >= current_round
        /\ current_round' = IF outcome = "tournament_raised" THEN current_round
                            ELSE api_round
        /\ IF outcome = "ok"
           THEN LET stored == StoredLeaderboards(score_snapshots, api_round)
                    players_to_fetch == detect_scorecard_changes(lb, stored)
                IN  /\ failed \subseteq {players_to_fetch[i].player_id :
                                            i \in 1..Len(players_to_fetch)}
                    /\ detect_args' = [current |-> lb, stored |-> stored]
                    /\ detect_result' = [called |-> TRUE, players |-> players_to_fetch]
                    /\ score_snapshots' =
                           Append(score_snapshots,
                                  StoredSnapshot(api_round, lb,
                                      SyncScorecards(players_to_fetch, failed, api_round)))
           ELSE /\ failed = {}
                /\ UNCHANGED <<score_snapshots, detectVars>>
        /\ UNCHANGED <<pp_args, pp_result, entries, daily_scores, bonus_points,
                       last_call, race, ranking_snapshots, batch, restVars>>

NextSync == SyncTournamentData

SpecSync == InitSync /\ [][NextSync]_vars

-----------------------------------------------------------------------------
(* Polling driver: the loop of BackgroundJobService._run_loop and its retry
   helper.  A step ends where the loop awaits or where an outcome of the
   environment is drawn. *)

MaxIterations == 6

max_consecutive_errors == 5

max_retries == 3

base_delay == 2

\* str(error).lower(), as its words
PoolerMessage == <<"maxclientsinsessionmode", "max", "clients", "reached">>
QueuePoolMessage ==
    <<"queuepool", "limit", "of", "size", "5", "overflow", "10", "reached">>
ServerMessage == <<"could", "not", "connect", "to", "server">>

ErrorMessages == {PoolerMessage, QueuePoolMessage, ServerMessage}

\* pattern in text, for sequences of words
Contains(text, pattern) ==
    \E i \in 0..(Len(text) - Len(pattern)) :
        \A k \in 1..Len(pattern) : text[i + k] = pattern[k]

is_connection_pool_error(error) ==
    \/ Contains(error, <<"maxclientsinsessionmode">>)
    \/ Contains(error, <<"max", "clients", "reached">>)
    \/ Contains(error, <<"connection", "pool">>)
    \/ Contains(error, <<"pool_size">>)

\* an attempt returns or raises an error with a message
FuncReturned == <<"returned">>

AttemptOutcomes == {FuncReturned} \cup ErrorMessages

\* what the first part of an iteration finds
IterationChecks ==
    {"query_raised", "not_found", "outside_hours", "inactive_day", "active"}

RECURSIVE Pow2(_)
Pow2(n) == IF n = 0 THEN 1 ELSE 2 * Pow2(n - 1)

\* delay = base_delay * (2 ** attempt)
RetryDelay(attempt) == base_delay * Pow2(attempt)

\* mutant: every error but the one of the last attempt is retried
ShouldRetry_AnyError(attempt, error) ==
    attempt # max_retries - 1

\* the except clause of the helper goes on to sleep and to the next attempt
ShouldRetry(attempt, error) ==
    /\ attempt # max_retries - 1
    /\ is_connection_pool_error(error)

\* the loop after start() has created its task
StartedDriver ==
    [pc |-> "top", running |-> TRUE, consecutive_errors |-> 0,
     iterations |-> 0, attempt |-> 0, outcomes |-> <<>>, delays |-> <<>>,
     retry |-> "none", failed_run |-> 0, last |-> "none"]

\* consecutive_errors += 1, then the test against max_consecutive_errors;
\* failed_run counts the failed iterations since the last one that did not
\* fail
IterationFailed(d, kind) ==
    LET n == d.consecutive_errors + 1 IN
    [d EXCEPT !.consecutive_errors = n,
              !.failed_run = @ + 1,
              !.last = kind,
              !.running = IF n >= max_consecutive_errors THEN FALSE ELSE @,
              !.pc = IF n >= max_consecutive_errors THEN "exited" ELSE "sleep"]

\* the iteration up to the call of the retry helper
begin_iteration(d, check) ==
    LET fresh == [d EXCEPT !.iterations = @ + 1, !.attempt = 0,
                           !.outcomes = <<>>, !.delays = <<>>, !.retry = "none"]
    IN  CASE check = "query_raised" -> IterationFailed(fresh, "unexpected")
          [] check = "not_found" -> IterationFailed(fresh, "not_found")
          [] check \in {"outside_hours", "inactive_day"} ->
                [fresh EXCEPT !.consecutive_errors = 0, !.failed_run = 0,
                              !.last = "skipped", !.pc = "sleep"]
          [] OTHER ->
                [fresh EXCEPT !.consecutive_errors = 0, !.retry = "running",
                              !.pc = "attempt"]

\* one pass of the for loop of _retry_with_backoff, and what the loop does
\* with the helper's result
retry_attempt(d, outcome) ==
    LET called == [d EXCEPT !.outcomes = Append(@, outcome)] IN
    IF outcome = FuncReturned
    THEN [called EXCEPT !.retry = "returned", !.failed_run = 0, !.last = "ok",
                        !.pc = "sleep"]
    ELSE IF ShouldRetry(d.attempt, outcome)
    THEN [called EXCEPT !.delays = Append(@, RetryDelay(d.attempt)),
                        !.pc = "backoff"]
    ELSE IterationFailed([called EXCEPT !.retry = "raised"], "sync_calc_error")

InitDriver ==
    /\ pp_args = NoArgs
    /\ pp_result = NotCalled
    /\ entries = <<>>
    /\ daily_scores = EmptyBag
    /\ bonus_points = EmptyBag
    /\ last_call = [op |-> "none"]
    /\ calls = 0
    /\ race = NoRace
    /\ BatchUnused
    /\ DetectUnused
    /\ bonus_args = NoBonusArgs
    /\ bonus_result = BonusNotCalled
    /\ JobsUnused
    /\ driver = StartedDriver

DriverStep(d) ==
    /\ driver' = d
    /\ UNCHANGED <<pp_args, pp_result, entries, daily_scores, bonus_points,
                   last_call, calls, race, batchVars, detectVars, bonusVars, jobs>>

BeginIteration ==
    \E check \in IterationChecks :
        /\ driver.pc = "top"
        /\ driver.running
        /\ driver.iterations < MaxIterations
        /\ DriverStep(begin_iteration(driver, check))

\* await func()
Attempt ==
    \E outcome \in AttemptOutcomes :
        /\ driver.pc = "attempt"
        /\ DriverStep(retry_attempt(driver, outcome))

\* await asyncio.sleep(delay) of the helper is over
Backoff ==
    /\ driver.pc = "backoff"
    /\ DriverStep([driver EXCEPT !.attempt = @ + 1, !.pc = "attempt"])

\* await asyncio.sleep(interval_seconds) is over
Sleep ==
    /\ driver.pc = "sleep"
    /\ DriverStep([driver EXCEPT !.pc = "top"])

\* stop(): running = False and the task is cancelled where it waits, or
\* before it has run
Stop ==
    /\ \/ driver.pc \in {"backoff", "sleep"}
       \/ driver.pc = "top" /\ driver.iterations = 0
    /\ DriverStep([driver EXCEPT !.running = FALSE, !.pc = "exited",
                                 !.last = "cancelled"])

NextDriver == BeginIteration \/ Attempt \/ Backoff \/ Sleep \/ Stop

SpecDriver == InitDriver /\ [][NextDriver]_vars

-----------------------------------------------------------------------------
(* Jobs API: /jobs/start and /jobs/stop of one tournament on one event loop.
   A request runs without interruption up to the await inside stop() that
   waits for the cancelled task; the other requests and the loop tasks run
   while it waits. *)

MaxRequests == 4

\* the registry _job_services holds no entry for the tournament
NoJob == 0

\* no request yet, no service created
IdleJobs == [registry |-> NoJob, services |-> <<>>, requests |-> <<>>]

\* BackgroundJobService(db) followed by start(): running and a new task
NewService == [running |-> TRUE, task |-> "alive"]

Request(kind, pc, job) == [kind |-> kind, pc |-> pc, job |-> job]

\* the task of the service has finished
TaskDone(j, job) == j.services[job].task = "done"

\* stop() up to its await: running = False, and cancel() unless the task is
\* done
StopService(j, job) ==
    [j EXCEPT !.services[job] =
        [running |-> FALSE,
         task |-> IF @.task = "done" THEN "done" ELSE "cancelling"]]

\* del _job_services[tournament_id], then a new service is started and
\* registered
ReplaceJob(j) ==
    [j EXCEPT !.services = Append(@, NewService),
              !.registry = Len(j.services) + 1]

\* start_background_job from the registry check on, up to its end or up to
\* the await in stop()
start_background_job(j) ==
    IF j.registry # NoJob /\ j.services[j.registry].running
    THEN LET stopped == StopService(j, j.registry) IN
         IF TaskDone(j, j.registry)
         THEN [ReplaceJob(stopped) EXCEPT
                  !.requests = Append(@, Request("start", "done", j.registry))]
         ELSE [stopped EXCEPT
                  !.requests = Append(@, Request("start", "waiting", j.registry))]
    ELSE [ReplaceJob(j) EXCEPT
             !.requests = Append(@, Request("start", "done", j.registry))]

\* start_background_job after stop() has returned: the unguarded del raises
\* KeyError when the entry is gone
resume_start(j, r) ==
    IF j.registry = NoJob
    THEN [j EXCEPT !.requests[r].pc = "failed"]
    ELSE [ReplaceJob(j) EXCEPT !.requests[r].pc = "done"]

\* stop_background_job up to its end or up to the await in stop()
stop_background_job(j) ==
    IF j.registry = NoJob
    THEN [j EXCEPT !.requests = Append(@, Request("stop", "done", NoJob))]
    ELSE IF ~j.services[j.registry].running
    THEN [j EXCEPT !.registry = NoJob,
                   !.requests = Append(@, Request("stop", "done", j.registry))]
    ELSE LET stopped == StopService(j, j.registry) IN
         IF TaskDone(j, j.registry)
         THEN [stopped EXCEPT
                  !.registry = NoJob,
                  !.requests = Append(@, Request("stop", "done", j.registry))]
         ELSE [stopped EXCEPT
                  !.requests = Append(@, Request("stop", "waiting", j.registry))]

\* stop_background_job after stop() has returned
resume_stop(j, r) ==
    [j EXCEPT !.registry = NoJob, !.requests[r].pc = "done"]

InitJobs ==
    /\ pp_args = NoArgs
    /\ pp_result = NotCalled
    /\ entries = <<>>
    /\ daily_scores = EmptyBag
    /\ bonus_points = EmptyBag
    /\ last_call = [op |-> "none"]
    /\ calls = 0
    /\ race = NoRace
    /\ BatchUnused
    /\ DetectUnused
    /\ bonus_args = NoBonusArgs
    /\ bonus_result = BonusNotCalled
    /\ DriverUnused
    /\ jobs = IdleJobs

JobsStep(j) ==
    /\ jobs' = j
    /\ UNCHANGED <<pp_args, pp_result, entries, daily_scores, bonus_points,
                   last_call, calls, race, batchVars, detectVars, bonusVars,
                   driver>>

\* a /jobs/start request arrives
StartJob ==
    /\ Len(jobs.requests) < MaxRequests
    /\ JobsStep(start_background_job(jobs))

\* a /jobs/stop request arrives
StopJob ==
    /\ Len(jobs.requests) < MaxRequests
    /\ JobsStep(stop_background_job(jobs))

\* the request that waited in stop() goes on
ResumeRequest ==
    \E r \in 1..Len(jobs.requests) :
        /\ jobs.requests[r].pc = "waiting"
        /\ TaskDone(jobs, jobs.requests[r].job)
        /\ JobsStep(IF jobs.requests[r].kind = "start"
                    THEN resume_start(jobs, r)
                    ELSE resume_stop(jobs, r))

\* the loop gets the CancelledError at its await and exits
LoopCancelled ==
    \E job \in 1..Len(jobs.services) :
        /\ jobs.services[job].task = "cancelling"
        /\ JobsStep([jobs EXCEPT !.services[job] =
                        [running |-> FALSE, task |-> "done"]])

\* the loop stops by itself after too many consecutive errors
LoopExits ==
    \E job \in 1..Len(jobs.services) :
        /\ jobs.services[job].task = "alive"
        /\ jobs.services[job].running
        /\ JobsStep([jobs EXCEPT !.services[job] =
                        [running |-> FALSE, task |-> "done"]])

NextJobs == StartJob \/ StopJob \/ ResumeRequest \/ LoopCancelled \/ LoopExits

SpecJobs == InitJobs /\ [][NextJobs]_vars

-----------------------------------------------------------------------------
(* Properties of the position scoring table (SpecPoints) *)

PointsCalled == pp_result # NotCalled

\* a numeric position as the feed writes it: decimal digits, optionally
\* prefixed with the tie marker "T" (or a Python int)
IsTieNumber(position) ==
    \/ position.kind = "int"
    \/ /\ position.kind = "str"
       /\ LET cs == position.chars
              ds == IF cs # <<>> /\ cs[1] = "T" THEN Tail(cs) ELSE cs
          IN  /\ ds # <<>>
              /\ \A i \in 1..Len(ds) : ds[i] \in DigitChars

TieNumberValue(position) ==
    IF position.kind = "int" THEN position.val
    ELSE LET cs == position.chars
             ds == IF cs # <<>> /\ cs[1] = "T" THEN Tail(cs) ELSE cs
         IN  DigitsValue(ds)

\* the tier table as the specification states it
TierTable(round_id, p) ==
    IF round_id = 1
    THEN (IF p = 1 THEN 8 ELSE IF p <= 5 THEN 5 ELSE IF p <= 10 THEN 3
          ELSE IF p <= 25 THEN 1 ELSE 0)
    ELSE (IF p = 1 THEN 12 ELSE IF p <= 5 THEN 8 ELSE IF p <= 10 THEN 5
          ELSE IF p <= 25 THEN 3 ELSE 1)

StillActive(status) == StatusLower(status) \notin CutStatuses

C7_Case ==
    /\ PointsCalled
    /\ IsTieNumber(pp_args.position)
    /\ TieNumberValue(pp_args.position) >= 1
    /\ StillActive(pp_args.status)

C7_WinnerCall ==
    /\ pp_args.round_id = 4
    /\ pp_args.is_winner
    /\ TieNumberValue(pp_args.position) = 1

\* C7 as stated: an active player at numeric position p >= 1 gets the tier
\* value of the round (leader / top 5 / top 10 / top 25 / made cut, 0 outside
\* the top 25 in round 1), whatever the other arguments of the call are.
C7_TiersAsStated ==
    C7_Case =>
        pp_result = Returned(TierTable(pp_args.round_id, TieNumberValue(pp_args.position)))

\* C7 amended: an active player at numeric position p >= 1 gets the tier
\* value of the round, except that a call for round 4 with is_winner set and
\* p = 1 returns the winner value 15 in place of the leader value 12.
C7_Tiers ==
    C7_Case =>
        pp_result =
            IF C7_WinnerCall THEN Returned(15)
            ELSE Returned(TierTable(pp_args.round_id, TieNumberValue(pp_args.position)))

\* an active player outside the top 25 in round 1 scored 0, and one in
\* round 2 scored the made-cut point
C7_Witness ==
    /\ C7_Case
    /\ TieNumberValue(pp_args.position) > 25
    /\ pp_args.position.kind = "str"
    /\ pp_args.position.chars[1] = "T"
    /\ pp_args.round_id = 1
    /\ pp_result = Returned(0)

\* C8 as stated (function level): a player whose status is cut, wd or dq
\* scores 0 position points in every round, whatever position is reported.
C8_CutStatusScoresZero ==
    (PointsCalled /\ pp_args.status \in CutStatuses) => pp_result = Returned(0)

\* an integer literal: optional sign, then decimal digits
IsIntegerLiteral(cs) ==
    /\ cs # <<>>
    /\ LET first == IF cs[1] \in {"+", "-"} THEN 2 ELSE 1 IN
       /\ first <= Len(cs)
       /\ \A i \in first..Len(cs) : cs[i] \in DigitChars

\* cs without its leading and trailing blanks
Trimmed(cs) ==
    LET nonblank == {i \in 1..Len(cs) : cs[i] # " "} IN
    IF nonblank = {} THEN <<>>
    ELSE SubSeq(cs, CHOOSE i \in nonblank : \A j \in nonblank : i <= j,
                    CHOOSE i \in nonblank : \A j \in nonblank : j <= i)

WithoutTiePrefix(cs) == IF cs # <<>> /\ cs[1] = "T" THEN Tail(cs) ELSE cs

WithoutAnyT(cs) ==
    LET keep == {i \in 1..Len(cs) : cs[i] # "T"}
        RECURSIVE Pick(_)
        Pick(i) == IF i > Len(cs) THEN <<>>
                   ELSE IF i \in keep THEN <<cs[i]>> \o Pick(i + 1) ELSE Pick(i + 1)
    IN  Pick(1)

IsCutWord(position) ==
    position.kind = "str" /\ Lower(position.chars) \in CutWords

C10_Missing == pp_args.position.kind = "none" \/ pp_args.position = Str(<<>>)

\* C10 as stated: a position that is missing, empty, equal to cut/wd/dq in
\* any letter case, or not parseable as an integer once the tie prefix is
\* removed, returns 0 (and does not raise) in every round and for every status.
C10_MalformedAsStated ==
    (/\ PointsCalled
     /\ \/ C10_Missing
        \/ IsCutWord(pp_args.position)
        \/ /\ pp_args.position.kind = "str"
           /\ ~IsIntegerLiteral(Trimmed(WithoutTiePrefix(Trimmed(pp_args.position.chars)))))
        => pp_result = Returned(0)

\* C10 amended: a position that is missing, empty, equal to cut/wd/dq in any
\* letter case, or not parseable as an integer once every "T" character and
\* the surrounding blanks are removed, returns 0 and does not raise, in every
\* round and for every status.
C10_Malformed ==
    (/\ PointsCalled
     /\ \/ C10_Missing
        \/ IsCutWord(pp_args.position)
        \/ /\ pp_args.position.kind = "str"
           /\ ~IsIntegerLiteral(Trimmed(WithoutAnyT(pp_args.position.chars))))
        => pp_result = Returned(0)

\* an unparseable position was scored 0 for a player who made the cut in round 2
C10_Witness ==
    /\ PointsCalled
    /\ pp_args.position = Str(<<"T", "x", "2">>)
    /\ pp_args.round_id = 2
    /\ pp_args.status = "complete"
    /\ pp_result = Returned(0)

-----------------------------------------------------------------------------
(* Properties of the calculator, calls not overlapping (Spec) *)

\* this step is one direct call of calculate_and_save_daily_score
CalcStep == calls' = calls + 1 /\ last_call'.op = "calculate"

\* this step repeats the previous call: same entry, round and snapshot
RepeatedCalcStep ==
    /\ last_call.op = "calculate"
    /\ CalcStep
    /\ last_call'.entry_id = last_call.entry_id
    /\ last_call'.round_id = last_call.round_id
    /\ last_call'.snapshot = last_call.snapshot

\* the BonusPoint rows of one (entry, round)
BonusKeyed(rows, entry_id, round_id) ==
    BagFilter(rows, LAMBDA b : b.entry_id = entry_id /\ b.round_id = round_id)

NoDuplicates(B) == \A x \in DOMAIN B : B[x] = 1

\* the DailyScore row of a key that has exactly one
TheScore(rows, entry_id, round_id) ==
    CHOOSE d \in DOMAIN ScoreKeyed(rows, entry_id, round_id) : TRUE

HasBonus(d, bonus_type) ==
    \E i \in 1..Len(d.details.bonuses) : d.details.bonuses[i].bonus_type = bonus_type

\* C1 as stated: a second call of calculate_and_save_daily_score with the same
\* entry, round and snapshots leaves the DailyScore of the key (base, bonus,
\* total, details) and its BonusPoint rows as the first call left them, and
\* leaves no BonusPoint row twice.
C1_Idempotent ==
    [][RepeatedCalcStep =>
          LET e == last_call.entry_id
              r == last_call.round_id
          IN  /\ ScoreKeyed(daily_scores', e, r) = ScoreKeyed(daily_scores, e, r)
              /\ BonusKeyed(bonus_points', e, r) = BonusKeyed(bonus_points, e, r)
              /\ NoDuplicates(BonusKeyed(bonus_points', e, r))]_vars

\* the four stored parts of a DailyScore agree with each other
ScoreConsistent(d) ==
    /\ d.base_points = SumPoints(d.details.base_breakdown)
    /\ d.bonus_points = SumPoints(d.details.bonuses)
    /\ d.total_points = d.base_points + d.bonus_points

\* C2: each (entry, round) has at most one DailyScore row, whose base, bonus,
\* total and details were written together; and after a call of the
\* calculator the row of its key is the one computed from the snapshot of
\* that call (slot by slot, and bonus by bonus for the players), whether the
\* key had a row before or not.
C2_Upsert ==
    /\ \A e \in DOMAIN entries, r \in RoundIds :
           BagCardinality(ScoreKeyed(daily_scores, e, r)) <= 1
    /\ \A d \in DOMAIN daily_scores : ScoreConsistent(d)
    /\ last_call.op = "calculate" =>
           LET e == last_call.entry_id
               r == last_call.round_id
               s == SnapshotInputs[last_call.snapshot]
               d == TheScore(daily_scores, e, r)
           IN  /\ BagCardinality(ScoreKeyed(daily_scores, e, r)) = 1
               /\ d.details.base_breakdown =
                      calculate_daily_base_points(entries[e], s.lb, r).breakdown
               /\ SelectSeq(d.details.bonuses, LAMBDA b : b.player_id # "None") =
                      ManualBonuses(bonus_points, e, r, BonusPlayerIds(entries[e], r))
                          \o PlayerBonuses(BonusPlayerIds(entries[e], r), s.lb, s.sc, r)

\* a call on the in-progress leaderboard overwrote the row of its key
C2_Witness ==
    /\ last_call.op = "calculate"
    /\ last_call.updated
    /\ last_call.snapshot = 2
    /\ BagCardinality(ScoreKeyed(daily_scores, last_call.entry_id, last_call.round_id)) = 1
    /\ TheScore(daily_scores, last_call.entry_id, last_call.round_id).base_points =
           calculate_daily_base_points(entries[last_call.entry_id], LeaderboardB,
                                       last_call.round_id).total_points

AllManualRows(rows) == BagFilter(rows, LAMBDA b : b.bonus_type \in ManualTypes)

\* C4: a call of calculate_and_save_daily_score leaves the manual BonusPoint
\* rows (gir_leader, fairways_leader) of every (entry, round) exactly as they
\* were, on the create path and on the overwrite path; the recalculation
\* inside a manual bonus request removes none of them either.
C4_ManualRowsSurvive ==
    [][/\ CalcStep => AllManualRows(bonus_points') = AllManualRows(bonus_points)
       /\ (calls' = calls + 1 /\ last_call'.op = "add_bonus_point") =>
              AllManualRows(bonus_points) \sqsubseteq AllManualRows(bonus_points')]_vars

\* a call overwrote a DailyScore whose key has a manual row and automatic rows
C4_Witness ==
    /\ last_call.op = "calculate"
    /\ last_call.updated
    /\ LET mine == BonusKeyed(bonus_points, last_call.entry_id, last_call.round_id) IN
       /\ AllManualRows(mine) # EmptyBag
       /\ AllManualRows(mine) # mine

\* C5: in every step, an entry's weekend_bonus_earned is never reset, and it
\* is set only from a state in which weekend_bonus_forfeited is false.
C5_EarnedOnce ==
    [][\A e \in DOMAIN entries :
          /\ entries[e].weekend_bonus_earned => entries'[e].weekend_bonus_earned
          /\ (~entries[e].weekend_bonus_earned /\ entries'[e].weekend_bonus_earned)
                 => ~entries[e].weekend_bonus_forfeited]_vars

\* round 3 was calculated for a forfeited entry whose six original players
\* all made the cut, and the flag stayed false
C5_Witness ==
    /\ last_call.op = "calculate"
    /\ last_call.round_id = 3
    /\ last_call.snapshot = 1
    /\ entries[last_call.entry_id].weekend_bonus_forfeited
    /\ ~entries[last_call.entry_id].weekend_bonus_earned

\* the replacement of an original player (the player itself without a rebuy)
Substitute(entry, player_id) ==
    LET hits == {i \in 1..Len(entry.rebuy_original_player_ids) :
                    entry.rebuy_original_player_ids[i] = player_id}
    IN  IF hits = {} THEN player_id
        ELSE entry.rebuy_player_ids[CHOOSE i \in hits : TRUE]

OriginalsMadeCut(entry, lb) ==
    \A i \in SlotIds :
        \A j \in 1..Len(lb) :
            (lb[j].playerId = entry.player_ids[i]
                /\ \A k \in 1..(j - 1) : lb[k].playerId # entry.player_ids[i])
            => lb[j].status \notin CutStatuses

\* C6: the score computed by a call contains all_make_cut (5 points) only in
\* round 3, only if none of the six original players is cut, wd or dq, and
\* only if the entry had neither forfeited nor earned the bonus; in rounds 3
\* and 4 the base breakdown and the per-player bonuses are those of the
\* substituted players.
C6_WeekendBonus ==
    [][CalcStep =>
          LET e == last_call'.entry_id
              r == last_call'.round_id
              lb == SnapshotInputs[last_call'.snapshot].lb
              d == TheScore(daily_scores', e, r)
              bs == d.details.bonuses
          IN  /\ \A i \in 1..Len(bs) :
                    bs[i].bonus_type = "all_make_cut" =>
                        /\ bs[i].points = 5
                        /\ r = 3
                        /\ OriginalsMadeCut(entries[e], lb)
                        /\ ~entries[e].weekend_bonus_forfeited
                        /\ ~entries[e].weekend_bonus_earned
              /\ r >= 3 =>
                    /\ \A i \in SlotIds :
                          d.details.base_breakdown[i].player_id =
                              Substitute(entries[e], entries[e].player_ids[i])
                    /\ \A i \in 1..Len(bs) :
                          bs[i].player_id # "None" =>
                              \E k \in SlotIds :
                                  bs[i].player_id =
                                      Substitute(entries[e], entries[e].player_ids[k])]_vars

\* round 3 of an entry that swapped p2 for p7: the bonus was awarded on the
\* statuses of the original six while slot 2 was scored for p7
C6_Witness ==
    /\ last_call.op = "calculate"
    /\ last_call.round_id = 3
    /\ entries[last_call.entry_id].rebuy_original_player_ids = <<"p2">>
    /\ LET d == TheScore(daily_scores, last_call.entry_id, 3) IN
       /\ HasBonus(d, "all_make_cut")
       /\ d.details.base_breakdown[2].player_id = "p7"

RECURSIVE SubstitutionMap(_, _)
\* the map original id -> rebuy id of the first n index-aligned pairs of the
\* two rebuy arrays
SubstitutionMap(entry, n) ==
    IF n = 0 THEN <<>>
    ELSE LET before == SubstitutionMap(entry, n - 1)
             key == entry.rebuy_original_player_ids[n]
         IN  [k \in DOMAIN before \cup {key} |->
                 IF k = key THEN entry.rebuy_player_ids[n] ELSE before[k]]

EffectivePlayers(entry, round_id) ==
    LET n == IF Len(entry.rebuy_original_player_ids) < Len(entry.rebuy_player_ids)
             THEN Len(entry.rebuy_original_player_ids)
             ELSE Len(entry.rebuy_player_ids)
        map == SubstitutionMap(entry, n)
    IN  IF round_id \in {1, 2} THEN entry.player_ids
        ELSE [i \in SlotIds |->
                 IF entry.player_ids[i] \in DOMAIN map
                 THEN map[entry.player_ids[i]]
                 ELSE entry.player_ids[i]]

\* C11: for every entry, in rounds 1 and 2 the player list that is scored is
\* the six nominal ids whatever the rebuy arrays hold, and in rounds 3 and 4
\* every slot whose id is a key of the substitution map is replaced by its
\* rebuy id and the others are unchanged; base points and bonus detection use
\* the same list, and the score stored by a calculation lists exactly these
\* players.
C11_RebuyResolution ==
    /\ \A e \in DOMAIN entries :
          \A r \in RoundIds :
              /\ BasePlayerIds(entries[e], r) = EffectivePlayers(entries[e], r)
              /\ BonusPlayerIds(entries[e], r) = BasePlayerIds(entries[e], r)
    /\ last_call.op = "calculate" /\ SnapshotInputs[last_call.snapshot].found =>
          LET e == last_call.entry_id
              r == last_call.round_id
              d == TheScore(daily_scores, e, r)
              players == EffectivePlayers(entries[e], r)
          IN  /\ \A i \in SlotIds :
                    d.details.base_breakdown[i].player_id = players[i]
              /\ \A i \in 1..Len(d.details.bonuses) :
                    d.details.bonuses[i].player_id # "None" =>
                        \E k \in SlotIds :
                            d.details.bonuses[i].player_id = players[k]

\* a round-2 calculation of an entry that has swapped p2 for p7 still scored
\* slot 2 for p2
C11_Witness ==
    /\ last_call.op = "calculate"
    /\ last_call.round_id = 2
    /\ entries[last_call.entry_id].rebuy_original_player_ids = <<"p2">>
    /\ entries[last_call.entry_id].rebuy_player_ids = <<"p7">>
    /\ TheScore(daily_scores, last_call.entry_id, 2).details.base_breakdown[2].player_id
          = "p2"

IsPositionOne(position) ==
    IsTieNumber(position) /\ TieNumberValue(position) = 1

\* C9: a slot of a stored score has the winner value 15 only in round 4 and
\* only if the leaderboard row of its player has position "1" and status
\* complete; a round-4 slot at position 1 whose status is not complete has
\* the leader value 12; and on the position and status of every slot,
\* calculate_position_points returns 15 for no call of rounds 1-3 and for no
\* call with is_winner false, and 12 for a round-4 position 1 without is_winner.
C9_WinnerValue ==
    \A d \in DOMAIN daily_scores :
        \A i \in SlotIds :
            LET slot == d.details.base_breakdown[i] IN
            /\ slot.points = 15 =>
                   /\ d.round_id = 4
                   /\ slot.position = Str(<<"1">>)
                   /\ slot.status = "complete"
            /\ (d.round_id = 4 /\ IsPositionOne(slot.position)
                    /\ slot.status # "complete") => slot.points = 12
            /\ \A r \in RoundIds, w \in BOOLEAN :
                   LET res == calculate_position_points(slot.position, r, w, slot.status) IN
                   /\ res.points = 15 => (r = 4 /\ w)
                   /\ (r = 4 /\ ~w /\ IsPositionOne(slot.position)) => res.points = 12

\* a round-4 score in which the finished leader's slot has the winner value
C9_Witness ==
    \E d \in DOMAIN daily_scores :
        /\ d.round_id = 4
        /\ \E i \in SlotIds : d.details.base_breakdown[i].points = 15

-----------------------------------------------------------------------------
(* Properties of the score calculator service (SpecBatch) *)

\* the leaderboard a round is calculated from
RoundLeaderboard(round_id) == LatestSnapshot(score_snapshots, round_id).lb

ExamplePositions ==
    <<Str(<<"1">>), Str(<<"2">>), Str(<<"5">>), Str(<<"1", "0">>),
      Str(<<"2", "0">>), Str(<<"3", "0">>)>>

ExamplePoints == <<8, 5, 5, 3, 1, 0>>

\* C12: in every DailyScore row the breakdown has six slots, each for the
\* slot's effective player with the scoring-table value of that player's
\* position and status on the round's leaderboard, and base_points is the sum
\* of the six; in round 1 the positions 1, 2, 5, 10, 20, 30 score 8, 5, 5, 3,
\* 1, 0 and base_points is 22.
C12_BaseIsSumOfSlots ==
    \A d \in DOMAIN daily_scores :
        LET slots == d.details.base_breakdown
            lb == RoundLeaderboard(d.round_id)
            players == EffectivePlayers(entries[d.entry_id], d.round_id)
        IN  /\ DOMAIN slots = SlotIds
            /\ d.base_points = slots[1].points + slots[2].points + slots[3].points
                                 + slots[4].points + slots[5].points + slots[6].points
            /\ \A i \in SlotIds :
                  /\ slots[i].player_id = players[i]
                  /\ slots[i].position = get_player_position(lb, players[i])
                  /\ slots[i].status = get_player_status(lb, players[i])
                  /\ slots[i].points =
                        calculate_position_points(
                            slots[i].position, d.round_id,
                            d.round_id = 4 /\ players[i] = WinnerId(lb, 4),
                            slots[i].status).points
            /\ (d.round_id = 1
                  /\ [i \in SlotIds |-> slots[i].position] = ExamplePositions)
               => /\ [i \in SlotIds |-> slots[i].points] = ExamplePoints
                  /\ d.base_points = 22

\* the round-1 row of entry 1 on the example leaderboard: 22 base points
C12_Witness ==
    \E d \in DOMAIN daily_scores :
        /\ d.entry_id = 1
        /\ d.round_id = 1
        /\ [i \in SlotIds |-> d.details.base_breakdown[i].position] = ExamplePositions
        /\ d.base_points = 22

\* no ScoreSnapshot row of the round is stored
SnapshotMissing(round_id) ==
    \A i \in 1..Len(score_snapshots) : score_snapshots[i].round_id # round_id

LastEvent == batch.log[Len(batch.log)]

\* C13: a call for a round without a stored snapshot does not raise (the
\* call raises only when one of its queries failed), never reaches the loop
\* over the entries, and returns success = false, the sync-first message and
\* entries_processed = 0; no DailyScore, BonusPoint or RankingSnapshot row of
\* such a round is ever written.
C13_MissingSnapshot ==
    /\ batch.pc = "raised" => LastEvent.ev = "round" /\ LastEvent.db_error
    /\ batch.pc \in {"entries", "returned"} /\ SnapshotMissing(batch.round_id) =>
          /\ batch.pc = "returned"
          /\ DOMAIN batch.results = {"success", "message", "entries_processed"}
          /\ batch.results.success = FALSE
          /\ batch.results.message =
                "No score snapshot found. Please sync tournament data first."
          /\ batch.results.entries_processed = 0
          /\ LastEvent = RoundEvent(batch.round_id, FALSE)
    /\ \A r \in RoundIds :
          SnapshotMissing(r) =>
              /\ \A d \in DOMAIN daily_scores : d.round_id # r
              /\ \A b \in DOMAIN bonus_points : b.round_id # r
              /\ \A i \in 1..Len(ranking_snapshots) : ranking_snapshots[i].round_id # r

\* round 4 was requested while only rounds 1 to 3 have snapshots: the call
\* returned the failure
C13_Witness ==
    /\ batch.mode = "round"
    /\ batch.pc = "returned"
    /\ batch.round_id = 4
    /\ ~SnapshotMissing(3)
    /\ SnapshotMissing(4)
    /\ batch.results.success = FALSE

\* the events of the round call under way or last made: the log from its
\* last "round" event on
RoundLog ==
    LET starts == {i \in 1..Len(batch.log) : batch.log[i].ev = "round"} IN
    IF starts = {} THEN <<>>
    ELSE SubSeq(batch.log, CHOOSE i \in starts : \A j \in starts : j <= i,
                Len(batch.log))

EntryEvents == SelectSeq(RoundLog, LAMBDA x : x.ev = "entry")

CaptureEvents == SelectSeq(RoundLog, LAMBDA x : x.ev = "capture")

NumEntries == Cardinality(DOMAIN entries)

\* the round call found a snapshot and has left its loop over the entries
RoundBatchDone == batch.pc = "returned" /\ batch.results.success

EntryErrors ==
    SelectSeq(batch.results.errors,
              LAMBDA x : x[1] = "Error calculating score for entry")

\* C14: when a round batch has ended, the entries attempted are all entries
\* of the tournament, each once; entries_processed is their number; every
\* entry that raised is in the error list and every other entry, also one
\* that came after a raising entry, has its DailyScore row of the round
\* and counts in entries_updated.
C14_EveryEntryAttempted ==
    RoundBatchDone =>
        LET raising == {i \in 1..Len(EntryEvents) : EntryEvents[i].raised} IN
        /\ Len(EntryEvents) = NumEntries
        /\ \A e \in DOMAIN entries :
              Cardinality({i \in 1..Len(EntryEvents) : EntryEvents[i].entry_id = e}) = 1
        /\ batch.results.entries_processed = NumEntries
        /\ batch.results.entries_updated = NumEntries - Cardinality(raising)
        /\ Len(EntryErrors) = Cardinality(raising)
        /\ \A i \in 1..Len(EntryEvents) :
              IF EntryEvents[i].raised
              THEN \E k \in 1..Len(EntryErrors) :
                       EntryErrors[k][2] = EntryEvents[i].entry_id
              ELSE ScoreKeyed(daily_scores, EntryEvents[i].entry_id, batch.round_id)
                       # EmptyBag

\* entry 2 raised in the batch and entry 3, which came after it, was saved
C14_Witness ==
    /\ RoundBatchDone
    /\ \E i \in 1..Len(EntryEvents) :
          EntryEvents[i].entry_id = 2 /\ EntryEvents[i].raised
    /\ batch.results.errors # <<>>
    /\ batch.results.entries_processed = 3
    /\ batch.results.entries_updated = 2
    /\ ScoreKeyed(daily_scores, 3, batch.round_id) # EmptyBag

\* C15: a round call that found a snapshot has triggered the capture of the
\* ranking snapshot exactly once when it returns, whether or not entries
\* raised; the capture is the last step of the call, after every entry has
\* been attempted, and while the loop over the entries runs no capture has
\* been triggered.
C15_CaptureOnceAfterEntries ==
    /\ batch.pc = "entries" => CaptureEvents = <<>>
    /\ Len(CaptureEvents) <= 1
    /\ CaptureEvents # <<>> =>
          /\ RoundLog[Len(RoundLog)].ev = "capture"
          /\ Len(EntryEvents) = NumEntries
          /\ ~SnapshotMissing(batch.round_id)
    /\ RoundBatchDone => Len(CaptureEvents) = 1

\* every entry of the batch raised and the capture still ran, once, and
\* wrote its rows
C15_Witness ==
    /\ RoundBatchDone
    /\ Len(EntryEvents) = NumEntries
    /\ \A i \in 1..Len(EntryEvents) : EntryEvents[i].raised
    /\ CaptureEvents = <<CaptureEvent(batch.round_id, "ok")>>
    /\ ranking_snapshots # <<>>

\* C16: when the capture of the ranking snapshot has failed, the call has
\* returned (it has not raised) with success = true and the failure is one
\* warning at the end of the error list; every entry that was calculated
\* still has its DailyScore row of the round.
C16_CaptureFailureIsWarning ==
    (CaptureEvents # <<>> /\ CaptureEvents[1].outcome # "ok") =>
        /\ batch.pc \in {"returned", "next_round", "all_returned"}
        /\ batch.results.success = TRUE
        /\ batch.results.errors[Len(batch.results.errors)]
              = <<"Warning: Ranking snapshot failed">>
        /\ Len(batch.results.errors) = Len(EntryErrors) + 1
        /\ batch.results.entries_processed = NumEntries
        /\ \A i \in 1..Len(EntryEvents) :
              ~EntryEvents[i].raised =>
                  ScoreKeyed(daily_scores, EntryEvents[i].entry_id, batch.round_id)
                      # EmptyBag

\* the capture failed after a batch that saved the scores of all three
\* entries
C16_Witness ==
    /\ batch.pc = "returned"
    /\ CaptureEvents = <<CaptureEvent(batch.round_id, "capture_raised")>>
    /\ batch.results.success
    /\ batch.results.entries_updated = 3
    /\ \A e \in DOMAIN entries : ScoreKeyed(daily_scores, e, batch.round_id) # EmptyBag
    /\ ranking_snapshots = <<>>

AllRoundsDone == batch.mode = "all_rounds" /\ batch.pc = "all_returned"

RoundEvents == SelectSeq(batch.log, LAMBDA x : x.ev = "round")

\* the round's call raised, or returned the failure of a missing snapshot
RoundFailed(round_id) ==
    \/ \E i \in 1..Len(RoundEvents) :
           RoundEvents[i].round_id = round_id /\ RoundEvents[i].db_error
    \/ SnapshotMissing(round_id)

\* C17: when calculate_all_rounds has returned, the round calculation was
\* called for the rounds 1, 2, .. current_round in this order, each once,
\* and every round that failed, by an exception or by a missing snapshot,
\* has an entry in the errors of the result.
C17_AllRoundsCollectFailures ==
    AllRoundsDone =>
        /\ [i \in 1..Len(RoundEvents) |-> RoundEvents[i].round_id]
              = [i \in 1..current_round |-> i]
        /\ \A r \in 1..current_round :
              RoundFailed(r) =>
                  \E k \in 1..Len(batch.all_results.errors) :
                      batch.all_results.errors[k][2] = r

\* the rows a step has appended to the RankingSnapshot table
AppendedRows ==
    SubSeq(ranking_snapshots', Len(ranking_snapshots) + 1, Len(ranking_snapshots'))

\* C18: the rows appended by one capture are one row per entry, their ranks
\* are the numbers 1..N, each once; a row with a strictly larger total has
\* a smaller rank, and of two rows with equal totals the entry that comes
\* first in the iteration over the entries has the smaller rank.
C18_RanksArePermutation ==
    [][Len(ranking_snapshots') > Len(ranking_snapshots) =>
          LET new == AppendedRows IN
          /\ Len(new) = NumEntries
          /\ \A e \in DOMAIN entries :
                Cardinality({i \in 1..Len(new) : new[i].entry_id = e}) = 1
          /\ \A k \in 1..NumEntries :
                Cardinality({i \in 1..Len(new) : new[i].position = k}) = 1
          /\ \A i, j \in 1..Len(new) :
                /\ new[i].total_points > new[j].total_points
                      => new[i].position < new[j].position
                /\ (new[i].total_points = new[j].total_points
                      /\ new[i].entry_id < new[j].entry_id)
                      => new[i].position < new[j].position]_vars

\* a capture that ranked entries 1 and 3, which tie on a positive total,
\* first and second in this order, and entry 2 third on a smaller total
C18_Witness ==
    /\ Len(ranking_snapshots) = NumEntries
    /\ \E i, j, k \in 1..Len(ranking_snapshots) :
          /\ ranking_snapshots[i].entry_id = 1
          /\ ranking_snapshots[j].entry_id = 3
          /\ ranking_snapshots[k].entry_id = 2
          /\ ranking_snapshots[i].total_points > 0
          /\ ranking_snapshots[i].total_points = ranking_snapshots[j].total_points
          /\ ranking_snapshots[k].total_points < ranking_snapshots[i].total_points
          /\ ranking_snapshots[i].position = 1
          /\ ranking_snapshots[j].position = 2
          /\ ranking_snapshots[k].position = 3

\* the stored snapshots of the round under calculation that hold a
\* scorecard of the player, as indices into the table (oldest first)
SnapshotsWithCard(player_id) ==
    {i \in 1..Len(score_snapshots) :
        /\ score_snapshots[i].round_id = batch.round_id
        /\ player_id \in DOMAIN score_snapshots[i].sc}

\* C28: while the entries of a round are calculated, the scorecard data in
\* use holds, for every player with a scorecard in some snapshot of the
\* round, the scorecard of the most recent of these snapshots.
C28_MergeKeepsNewestScorecard ==
    batch.pc = "entries" =>
        \A p \in DOMAIN batch.sc :
            SnapshotsWithCard(p) # {} =>
                LET newest == CHOOSE i \in SnapshotsWithCard(p) :
                                  \A j \in SnapshotsWithCard(p) : j <= i
                IN  batch.sc[p] = score_snapshots[newest].sc[p]

RECURSIVE SumOfRows(_, _)
\* the sum of total_points over a bag of DailyScore rows
SumOfRows(rows, todo) ==
    IF todo = {} THEN 0
    ELSE LET d == CHOOSE x \in todo : TRUE IN
         d.total_points * rows[d] + SumOfRows(rows, todo \ {d})

\* the sum of all DailyScore rows of the entry
DailyTotal(rows, entry_id) ==
    SumOfRows(rows, {d \in DOMAIN rows : d.entry_id = entry_id})

\* C26: in the rows appended by one capture, total_points of a row is the
\* sum of total_points over all DailyScore rows of its entry at the time of
\* the capture, and points_behind_leader is the total of the row ranked 1
\* minus the total of the row: 0 for the row ranked 1 and never negative.
C26_TotalsAndPointsBehind ==
    [][Len(ranking_snapshots') > Len(ranking_snapshots) =>
          LET new == AppendedRows IN
          \A i \in 1..Len(new) :
              /\ new[i].total_points = DailyTotal(daily_scores, new[i].entry_id)
              /\ \A j \in 1..Len(new) :
                    new[j].position = 1 =>
                        new[i].points_behind_leader
                            = new[j].total_points - new[i].total_points
              /\ new[i].points_behind_leader >= 0
              /\ new[i].position = 1 => new[i].points_behind_leader = 0]_vars

\* a capture after more than one round was scored: an entry with scores in
\* two rounds, and a row behind the leader by a positive number of points
C26_Witness ==
    /\ Len(ranking_snapshots) >= NumEntries
    /\ \E i \in 1..Len(ranking_snapshots) :
          /\ ranking_snapshots[i].points_behind_leader > 0
          /\ ranking_snapshots[i].position > 1
    /\ \E d1, d2 \in DOMAIN daily_scores :
          /\ d1.entry_id = d2.entry_id
          /\ d1.round_id # d2.round_id
          /\ d1.total_points > 0
          /\ d2.total_points > 0

\* the step is the end of a round call whose capture was committed
CaptureCommitted ==
    /\ batch.pc = "entries"
    /\ batch'.pc = "returned"
    /\ batch'.log[Len(batch'.log)].ev = "capture"
    /\ batch'.log[Len(batch'.log)].outcome # "capture_raised"

\* C19: every step of the service leaves the RankingSnapshot rows written
\* before it as they are, in place; a committed capture appends exactly one
\* row per entry, whatever the earlier rows of the entry hold, and no other
\* step changes the table.
C19_RankingHistoryAppendOnly ==
    [][/\ Len(ranking_snapshots') >= Len(ranking_snapshots)
       /\ SubSeq(ranking_snapshots', 1, Len(ranking_snapshots)) = ranking_snapshots
       /\ IF CaptureCommitted
          THEN /\ Len(AppendedRows) = NumEntries
               /\ \A e \in DOMAIN entries :
                     Cardinality({i \in 1..Len(AppendedRows) :
                                     AppendedRows[i].entry_id = e}) = 1
          ELSE ranking_snapshots' = ranking_snapshots]_vars

\* two captures in a row: the second wrote a row for every entry although
\* the total and the rank of every entry were those of the first
C19_Witness ==
    /\ Len(ranking_snapshots) >= 2 * NumEntries
    /\ LET n == Len(ranking_snapshots) IN
       \A i \in 1..NumEntries :
           /\ ranking_snapshots[n - NumEntries + i].entry_id
                 = ranking_snapshots[n - 2 * NumEntries + i].entry_id
           /\ ranking_snapshots[n - NumEntries + i].total_points
                 = ranking_snapshots[n - 2 * NumEntries + i].total_points
           /\ ranking_snapshots[n - NumEntries + i].position
                 = ranking_snapshots[n - 2 * NumEntries + i].position

-----------------------------------------------------------------------------
(* Properties of the scorecard change detector (SpecDetect) *)

\* the leaderboard the call compared with
Baseline == PreviousSnapshot(detect_args.stored)

\* the score string is "E" or decimal digits with at most one sign
ReadableScore(score) ==
    \/ score = <<"E">>
    \/ IsDigits(score)
    \/ score # <<>> /\ Head(score) \in {"+", "-"} /\ IsDigits(Tail(score))

ScoreValue(score) ==
    IF score = <<"E">> THEN 0
    ELSE IF Head(score) = "-" THEN 0 - DigitsValue(Tail(score))
    ELSE IF Head(score) = "+" THEN DigitsValue(Tail(score))
    ELSE DigitsValue(score)

\* the score parser of the detector reads the string
Parseable(score) == parse_round_score(score).ok

ParsedValue(score) == parse_round_score(score).val

DetectScores ==
    {detect_args.current[i].currentRoundScore : i \in 1..Len(detect_args.current)}
        \cup {Baseline.lb[j].currentRoundScore : j \in 1..Len(Baseline.lb)}

\* the player must be flagged: a row with a parseable score in both
\* leaderboards, not cut, wd or dq in the current one, at least 2 better
MustFlag(player_id) ==
    \E i \in 1..Len(detect_args.current) :
        \E j \in 1..Len(Baseline.lb) :
            LET now == detect_args.current[i]
                before == Baseline.lb[j]
            IN  /\ now.playerId = player_id
                /\ before.playerId = player_id
                /\ StatusLower(now.status) \notin CutStatuses
                /\ Parseable(now.currentRoundScore)
                /\ Parseable(before.currentRoundScore)
                /\ ParsedValue(before.currentRoundScore)
                      - ParsedValue(now.currentRoundScore) >= 2

FlaggedPlayers ==
    {detect_result.players[i].player_id : i \in 1..Len(detect_result.players)}

\* C20: when a baseline snapshot exists, the players the detector returns
\* are exactly those with a parseable score in the current and in the
\* baseline leaderboard, not cut, wd or dq in the current one, and a
\* previous score minus current score of at least 2, each once and with
\* these two scores; from -3 to -5 is flagged, from -3 to -4 is not.  A
\* score written as E or as digits with at most one sign is parseable and
\* has the value it denotes.
C20_DetectorFlagsImprovement ==
    (detect_result.called /\ Baseline.found) =>
        /\ \A score \in DetectScores :
              ReadableScore(score) =>
                  Parseable(score) /\ ParsedValue(score) = ScoreValue(score)
        /\ \A p \in {"p1", "p2"} : p \in FlaggedPlayers <=> MustFlag(p)
        /\ FlaggedPlayers \subseteq {"p1", "p2"}
        /\ \A i, j \in 1..Len(detect_result.players) :
              detect_result.players[i].player_id = detect_result.players[j].player_id
                  => i = j
        /\ \A i \in 1..Len(detect_result.players) :
              LET x == detect_result.players[i] IN
              /\ x.improvement = x.previous_score - x.current_score
              /\ x.improvement >= 2
              /\ \E k \in 1..Len(detect_args.current) :
                    /\ detect_args.current[k].playerId = x.player_id
                    /\ ParsedValue(detect_args.current[k].currentRoundScore)
                          = x.current_score
              /\ \E k \in 1..Len(Baseline.lb) :
                    /\ Baseline.lb[k].playerId = x.player_id
                    /\ ParsedValue(Baseline.lb[k].currentRoundScore) = x.previous_score

\* p1 went from -3 to -5 and is flagged, p2 went from -3 to -4 and is not
C20_Witness ==
    /\ detect_result.called
    /\ Baseline.found
    /\ detect_result.players =
          << [player_id |-> "p1", previous_score |-> 0 - 3, current_score |-> 0 - 5,
              improvement |-> 2] >>
    /\ \E i \in 1..Len(detect_args.current) :
          /\ detect_args.current[i].playerId = "p2"
          /\ detect_args.current[i].status = "active"
          /\ detect_args.current[i].currentRoundScore = <<"-", "4">>

-----------------------------------------------------------------------------
(* Further properties of the calculator (Spec) *)

IsAutoBonus(b) == b.bonus_type \notin ManualTypes

\* the automatic bonuses in the details of a DailyScore row, as BonusPoint rows
DetailAutoRows(d) ==
    LET auto == SelectSeq(d.details.bonuses, IsAutoBonus) IN
    SeqToBag([i \in 1..Len(auto) |-> BonusRow(d.entry_id, d.round_id, auto[i])])

\* the automatic BonusPoint rows of one (entry, round)
AutoRowsKeyed(rows, entry_id, round_id) ==
    BagFilter(BonusKeyed(rows, entry_id, round_id), IsAutoBonus)

\* C23 as stated: after a call for (entry, round) the automatic BonusPoint
\* rows of the key are exactly the automatic bonuses in the details of its
\* DailyScore (nothing of an earlier pass is left), and no two of these rows
\* have the same bonus type, player and hole.
C23_AutoRowsAreFreshDetection ==
    last_call.op = "calculate" =>
        LET e == last_call.entry_id
            r == last_call.round_id
            rows == AutoRowsKeyed(bonus_points, e, r)
        IN  /\ rows = DetailAutoRows(TheScore(daily_scores, e, r))
            /\ \A x \in DOMAIN rows :
                  /\ rows[x] = 1
                  /\ \A y \in DOMAIN rows :
                        (x.bonus_type = y.bonus_type /\ x.player_id = y.player_id
                            /\ x.hole = y.hole) => x = y

\* the round-3 score of the entry carries the weekend bonus: 5 points of
\* all_make_cut in the details, counted in bonus_points, and a BonusPoint row
WeekendBonusKept(ents, scores, bonuses, entry_id) ==
    ents[entry_id].weekend_bonus_earned =>
        /\ ScoreKeyed(scores, entry_id, 3) # EmptyBag
        /\ LET d == TheScore(scores, entry_id, 3) IN
           /\ \E i \in 1..Len(d.details.bonuses) :
                 /\ d.details.bonuses[i].bonus_type = "all_make_cut"
                 /\ d.details.bonuses[i].points = 5
           /\ d.bonus_points = SumPoints(d.details.bonuses)
        /\ \E b \in DOMAIN BonusKeyed(bonuses, entry_id, 3) :
              b.bonus_type = "all_make_cut"

\* C30: starting from an entry without scores, after a round-3 calculation
\* and after its repetition with the same leaderboard and scorecards, an
\* entry whose weekend_bonus_earned is true has a round-3 DailyScore with the
\* 5-point all_make_cut bonus in its details and in bonus_points, and an
\* all_make_cut BonusPoint row.
C30_WeekendBonusSurvivesRecalculation ==
    [][(/\ calls = 1
        /\ last_call.round_id = 3
        /\ RepeatedCalcStep) =>
          /\ WeekendBonusKept(entries, daily_scores, bonus_points, last_call.entry_id)
          /\ WeekendBonusKept(entries', daily_scores', bonus_points', last_call.entry_id)]_vars

-----------------------------------------------------------------------------
(* Properties of the bonus detector (SpecBonus) *)

BonusCalled == bonus_result.called

ResultBonuses ==
    {bonus_result.bonuses[i] : i \in 1..Len(bonus_result.bonuses)}

\* the players the entry is scored with in the round of the call
BonusEffectivePlayers ==
    LET ids == EffectivePlayers(bonus_args.entry, bonus_args.round_id) IN
    {ids[i] : i \in SlotIds}

HoleTypes == {"hole_in_one", "double_eagle", "eagle"}

\* the award of a hole with a stroke count and a par, by the order of the
\* tests: hole in one, then 3 under par, then 2 under par
HoleAward(hole) ==
    IF hole.holeScore = 1 /\ hole.par = 3 THEN "hole_in_one"
    ELSE IF hole.holeScore - hole.par = 0 - 3 THEN "double_eagle"
    ELSE IF hole.holeScore - hole.par = 0 - 2 THEN "eagle"
    ELSE "none"

AwardPoints(bonus_type) == IF bonus_type = "eagle" THEN 2 ELSE 3

\* the scorecard records of a player for the round of the call
RoundRecords(player_id) ==
    LET cards == CardsOf(bonus_args.sc, player_id) IN
    {cards[i] : i \in {j \in 1..Len(cards) : cards[j].roundId = bonus_args.round_id}}

\* a hole that was played: it has a stroke count and a par
Played(hole) == hole.holeScore > 0 /\ hole.par > 0

ExpectedHoleBonuses ==
    UNION { UNION { { Bonus(p, HoleAward(c.holes[h]), AwardPoints(HoleAward(c.holes[h])), h) :
                        h \in {k \in DOMAIN c.holes :
                                  Played(c.holes[k]) /\ HoleAward(c.holes[k]) # "none"} } :
                    c \in RoundRecords(p) } :
            p \in BonusEffectivePlayers }

ResultHoleBonuses == {b \in ResultBonuses : b.bonus_type \in HoleTypes}

\* C24: the hole bonuses of a call are exactly, for every played hole of a
\* record of the round of an effective player: hole_in_one (3 points) for 1
\* stroke on a par 3, otherwise double_eagle (3 points) for 3 under par,
\* otherwise eagle (2 points) for 2 under par, and nothing for any other
\* hole or for a record of another round; no hole of a player has bonuses
\* of two different kinds.
C24_OneBonusPerHole ==
    BonusCalled =>
        /\ ResultHoleBonuses = ExpectedHoleBonuses
        /\ \A b1 \in ResultHoleBonuses : \A b2 \in ResultHoleBonuses :
              (b1.player_id = b2.player_id /\ b1.hole = b2.hole) => b1 = b2

\* a hole in one of p1 in the round: the only bonus of the hole is the
\* hole_in_one, although the hole is also 2 under par
C24_Witness ==
    /\ BonusCalled
    /\ bonus_args.entry = EntryOne
    /\ bonus_args.sc \in BonusScorecardInputs
    /\ bonus_args.sc["p1"][1].roundId = bonus_args.round_id
    /\ bonus_args.sc["p1"][1].holes[4] = Hole(1, 3)
    /\ Bonus("p1", "hole_in_one", 3, 4) \in ResultBonuses
    /\ Bonus("p1", "eagle", 2, 4) \notin ResultBonuses

\* a score as the leaderboard writes it: "E", or a sign and digits
LowScoreNotation(score) ==
    \/ score = <<"E">>
    \/ score # <<>> /\ Head(score) \in {"+", "-"} /\ IsDigits(Tail(score))

NotationValue(score) ==
    IF score = <<"E">> THEN 0
    ELSE IF Head(score) = "-" THEN 0 - DigitsValue(Tail(score))
    ELSE DigitsValue(Tail(score))

\* the rows that count: status complete and a score the scan can parse
CountedRows ==
    {i \in 1..Len(bonus_args.lb) :
        /\ bonus_args.lb[i].status = "complete"
        /\ ParseLowScore(bonus_args.lb[i].currentRoundScore).ok}

CountedValue(i) == ParseLowScore(bonus_args.lb[i].currentRoundScore).val

\* the first of the counted rows with the minimum score
LowestRow ==
    CHOOSE i \in CountedRows :
        /\ \A j \in CountedRows : CountedValue(i) <= CountedValue(j)
        /\ \A j \in CountedRows : CountedValue(j) = CountedValue(i) => i <= j

ResultLowScores == {b \in ResultBonuses : b.bonus_type = "low_score"}

\* C25: a score written "-N", "+N" or "E" is parsed to the number it
\* denotes, and a score that starts with no sign and is not "E" is not
\* parsed; the low-score player is the player of the first row, in
\* leaderboard order, among the complete rows with a parsed score, whose
\* score is the minimum; the call returns a low_score bonus, of 1 point and
\* for that player, if and only if that player is one of the entry's
\* effective players of the round, and no low_score bonus when no row counts.
C25_LowScoreOfDay ==
    BonusCalled =>
        /\ \A i \in 1..Len(bonus_args.lb) :
              LET score == bonus_args.lb[i].currentRoundScore IN
              /\ LowScoreNotation(score) =>
                    ParseLowScore(score) = [ok |-> TRUE, val |-> NotationValue(score)]
              /\ (score # <<"E">> /\ (score = <<>> \/ Head(score) \notin {"+", "-"})) =>
                    ~ParseLowScore(score).ok
        /\ ResultLowScores =
              IF CountedRows # {}
                    /\ bonus_args.lb[LowestRow].playerId \in BonusEffectivePlayers
              THEN {Bonus(bonus_args.lb[LowestRow].playerId, "low_score", 1, 0)}
              ELSE {}

\* p7 and p1 finished with the same lowest score and p7 is listed first: the
\* entry that holds p1 and not p7 gets no low_score bonus
C25_Witness ==
    /\ BonusCalled
    /\ bonus_args.entry = EntryOne
    /\ bonus_args.lb[1].playerId = "p7"
    /\ bonus_args.lb[2].playerId = "p1"
    /\ bonus_args.lb[1].status = "complete"
    /\ bonus_args.lb[2].status = "complete"
    /\ bonus_args.lb[1].currentRoundScore = <<"-", "2">>
    /\ bonus_args.lb[2].currentRoundScore = <<"-", "2">>
    /\ ResultLowScores = {}

-----------------------------------------------------------------------------
(* Properties of the data sync (SpecSync) *)

\* the snapshot stored by the previous poll of the round
PrecedingSnapshot ==
    IF detect_args.stored = <<>> THEN [found |-> FALSE, lb |-> <<>>]
    ELSE [found |-> TRUE, lb |-> detect_args.stored[Len(detect_args.stored)]]

\* C22: in every poll the detector compares the fetched leaderboard with the
\* leaderboard of the snapshot the previous poll of the round stored: its
\* baseline is that snapshot, it returns the players who improved by 2 or
\* more against it, and it is without a baseline only when the round has no
\* stored snapshot.
C22_BaselineIsPrecedingSnapshot ==
    detect_result.called =>
        /\ PreviousSnapshot(detect_args.stored) = PrecedingSnapshot
        /\ detect_result.players =
              IF PrecedingSnapshot.found
              THEN CompareScores(CurrentScores(detect_args.current, <<>>),
                                 PreviousScores(PrecedingSnapshot.lb, <<>>))
              ELSE <<>>

-----------------------------------------------------------------------------
(* Properties of the polling driver (SpecDriver) *)

\* C21: once max_consecutive_errors (5) iterations in a row have failed -
\* because the tournament was not found, because the sync and calculation
\* step raised, or because of an unexpected error - the loop has exited and
\* running is false.
C21_StopsAfterConsecutiveFailures ==
    driver.failed_run >= max_consecutive_errors =>
        driver.pc = "exited" /\ ~driver.running

\* the helper has given up or still runs after the last outcome
AttemptFailed(outcome) == outcome # FuncReturned

\* C27: in one iteration the retry helper calls the operation at most
\* max_retries (3) times; every call but the last one of the iteration
\* ended in a connection pool error, and the wait after the k-th of them was
\* base_delay * 2^(k-1) (2, then 4), and there is no other wait; the
\* helper returns exactly when a call succeeded, and it re-raises to the
\* loop, without a further call, exactly when a call ended in another error
\* or the third call ended in any error.
C27_RetryWithBackoff ==
    driver.retry # "none" =>
        LET o == driver.outcomes
            n == Len(o)
        IN  /\ n <= max_retries
            /\ \A k \in 1..(n - 1) :
                  AttemptFailed(o[k]) /\ is_connection_pool_error(o[k])
            /\ Len(driver.delays) =
                  IF n >= 1 /\ n < max_retries /\ AttemptFailed(o[n])
                        /\ is_connection_pool_error(o[n])
                  THEN n
                  ELSE IF n = 0 THEN 0 ELSE n - 1
            /\ \A k \in 1..Len(driver.delays) :
                  driver.delays[k] = IF k = 1 THEN 2 ELSE 4
            /\ driver.retry = "returned" <=> (n >= 1 /\ o[n] = FuncReturned)
            /\ driver.retry = "raised" <=>
                  (/\ n >= 1
                   /\ AttemptFailed(o[n])
                   /\ (n = max_retries \/ ~is_connection_pool_error(o[n])))
            /\ (driver.retry = "raised" /\ driver.last # "cancelled") =>
                  driver.last = "sync_calc_error"
            /\ driver.pc = "backoff" => Len(driver.delays) = n

\* two pool errors, waits of 2 and 4, and a third call that succeeded
C27_Witness ==
    /\ driver.retry = "returned"
    /\ Len(driver.outcomes) = 3
    /\ driver.outcomes[1] = PoolerMessage
    /\ driver.outcomes[2] = PoolerMessage
    /\ driver.delays = <<2, 4>>

-----------------------------------------------------------------------------
(* Properties of the jobs API (SpecJobs) *)

\* the services whose loop is running: started, not stopped, task not done
RunningLoops ==
    {job \in 1..Len(jobs.services) :
        jobs.services[job].running /\ jobs.services[job].task = "alive"}

\* C29: whatever the order in which the /jobs/start and /jobs/stop requests
\* of the tournament and the loop tasks take their steps, at most one loop
\* is running, and a running loop is the one the registry holds.
C29_OneRegisteredLoop ==
    /\ Cardinality(RunningLoops) <= 1
    /\ \A job \in RunningLoops : jobs.registry = job

-----------------------------------------------------------------------------
(* Properties of the race between the manual run and the driver (SpecRace) *)

RaceOver == race.round_id # 0 /\ race.done = Tasks

\* what one calculation of the round alone would have left
SingleCalculation ==
    CalculateAllEntries(race.initial, race.round_id, SnapshotInputs[race.snapshot])

\* C3 as stated: once the manual run and the driver have both calculated the
\* round, every entry has exactly one DailyScore row for it and no BonusPoint
\* row twice, and both are what a single calculation would have produced.
C3_RaceSafe ==
    RaceOver =>
        \A e \in DOMAIN entries :
            /\ BagCardinality(ScoreKeyed(daily_scores, e, race.round_id)) = 1
            /\ NoDuplicates(BonusKeyed(bonus_points, e, race.round_id))
            /\ ScoreKeyed(daily_scores, e, race.round_id) =
                   ScoreKeyed(SingleCalculation.daily_scores, e, race.round_id)
            /\ BonusKeyed(bonus_points, e, race.round_id) =
                   BonusKeyed(SingleCalculation.bonus_points, e, race.round_id)

====
